---- MODULE Spec2Model ----
(***************************************************************************)
(* Admission pipeline of the kiwistand store (src/src/store.mjs): add,     *)
(* passes and upvoteID, over the trie and the constraints database.        *)
(*                                                                         *)
(* store.add is an async function.  Between two awaits its code runs       *)
(* without interruption, so every action below is one such segment:        *)
(*   AddRejected lines 268-292, one of the checks throws                   *)
(*   AddPasses    lines 268-295 and the db.get of passes (line 254)        *)
(*   PassesPut    db.get has resolved: db.put is called (line 255)         *)
(*   PassesReturn db.put has resolved: passes returns (256), 296-309       *)
(*   TriePutOk    trie.put resolved (309) and lines 338-349                *)
(*   TriePutFail  trie.put rejected (309-310): metadb.remove is called     *)
(* and while add waits at line 309, trie.put takes its own steps:          *)
(*   TriePutRoot, TriePutWritten, TriePutRejected                          *)
(*   MetaRemove   metadb.remove has resolved (331) and lines 333-337       *)
(* A call on the constraints database acts on it when it is made; its      *)
(* promise resolves in a later step, in no fixed order with the others.    *)
(*                                                                         *)
(* Spec     add calls interleaving at their awaits                         *)
(* SpecSeq  one add call at a time                                         *)
(* SpecOne  one add call of any message on stores that hold admissions     *)
(***************************************************************************)
EXTENDS Integers, Sequences, FiniteSets, TLC

\* ------------------------------------------------------------- bounds
MaxCalls == 3
NProcs == 2

\* ------------------------------------------------ program configuration
MinTimestampSecs == 1
MaxTimestampDeltaSecs == 1
MsPerSec == 1000

Procs == 1..NProcs

\* ------------------------------------------------------------- inputs
NoAddress == "none"
Allowlist == {"0xA1", "0xB2"}
Delegations == [d \in {"0xD1"} |-> "0xa1"]
Signers == {"0xA1", "0xB2", "0xD1", "0xEE", NoAddress}
Hrefs == {"https://x.example", "https://x.example/"}
Types == {"submit", "amplify"}
Timestamps == (MinTimestampSecs - 1)..(MinTimestampSecs + MaxTimestampDeltaSecs + 1)

Msgs == [signer : Signers, href : Hrefs, type : Types, timestamp : Timestamps]

\* The messages of the runs with several add calls: an identity, its
\* delegate and a signer that is neither, both types, one href and one
\* timestamp.
FewSigners == {"0xA1", "0xD1", "0xEE"}
FewMsgs ==
  {m \in Msgs : /\ m.signer \in FewSigners
                /\ m.href = "https://x.example"
                /\ m.timestamp = MinTimestampSecs}

ClockStartMs == MinTimestampSecs * MsPerSec
TickMs == MsPerSec \div 2
ClockEndMs == ClockStartMs + TickMs

\* ------------------------------------------------------ pure functions
\* id.mjs verify: the address recovered from the signature; it throws when
\* recovery fails (NoAddress stands for the throw).
verify(message) == message.signer

\* ethers utils.getAddress: the checksummed form of an address.
getAddress(a) == IF a = "0xa1" THEN "0xA1" ELSE a

\* @attestate/delegator2 eligible: the identity of an address, the address
\* itself when it is on the allow list, the delegating identity when it is a
\* delegate of one, and nothing otherwise.
\* The address is taken in its checksummed form.
eligible(allowlist, delegations, address) ==
  LET a == getAddress(address)
  IN  IF a \in allowlist THEN a
      ELSE IF a \in DOMAIN delegations
              /\ getAddress(delegations[a]) \in allowlist
           THEN getAddress(delegations[a])
           ELSE NoAddress

\* normalize-url: strips the trailing slash.
normalizeUrl(link) == IF link = "https://x.example/" THEN "https://x.example" ELSE link

upvoteID(identity, link, type) == <<getAddress(identity), normalizeUrl(link), type>>

\* id.mjs toDigest: the canonical encoding of a message and its index.
canonical(message) ==
  <<message.href, message.type, message.timestamp, message.signer>>
index(message) == <<message.timestamp, canonical(message)>>

\* The synchronous checks of add before the dedup step.
ValidateSkipEligible(message, synching, now) ==
  IF verify(message) = NoAddress THEN "InvalidSignature"
  ELSE IF message.timestamp < MinTimestampSecs THEN "TimestampTooOld"
  ELSE IF ~synching
          /\ message.timestamp * MsPerSec >= now + MaxTimestampDeltaSecs * MsPerSec
       THEN "TimestampTooNew"
  ELSE "passes"

ValidateMinInclusive(message, synching, now) ==
  IF verify(message) = NoAddress THEN "InvalidSignature"
  ELSE IF eligible(Allowlist, Delegations, verify(message)) = NoAddress
       THEN "NotAuthorized"
  ELSE IF message.timestamp <= MinTimestampSecs THEN "TimestampTooOld"
  ELSE IF ~synching
          /\ message.timestamp * MsPerSec >= now + MaxTimestampDeltaSecs * MsPerSec
       THEN "TimestampTooNew"
  ELSE "passes"

ValidateMaxExclusive(message, synching, now) ==
  IF verify(message) = NoAddress THEN "InvalidSignature"
  ELSE IF eligible(Allowlist, Delegations, verify(message)) = NoAddress
       THEN "NotAuthorized"
  ELSE IF message.timestamp < MinTimestampSecs THEN "TimestampTooOld"
  ELSE IF ~synching
          /\ message.timestamp * MsPerSec > now + MaxTimestampDeltaSecs * MsPerSec
       THEN "TimestampTooNew"
  ELSE "passes"

Validate(message, synching, now) ==
  IF verify(message) = NoAddress THEN "InvalidSignature"
  ELSE IF eligible(Allowlist, Delegations, verify(message)) = NoAddress
       THEN "NotAuthorized"
  ELSE IF message.timestamp < MinTimestampSecs THEN "TimestampTooOld"
  ELSE IF ~synching
          /\ message.timestamp * MsPerSec >= now + MaxTimestampDeltaSecs * MsPerSec
       THEN "TimestampTooNew"
  ELSE "passes"

DedupKeyOfSigner(message) ==
  upvoteID(verify(message), message.href, message.type)
DedupKey(message) ==
  upvoteID(eligible(Allowlist, Delegations, verify(message)), message.href, message.type)

Keys == {DedupKey(m) : m \in {x \in Msgs : Validate(x, TRUE, ClockStartMs) = "passes"}}

\* passes, line 254: (await db.get(key)) === undefined
PassesGetAlways(db, key) == TRUE
PassesGet(db, key) == key \notin db

\* passes, line 255: db.put(key, true)
PassesSet(db, key) == db \cup {key}

\* trie.put(key, value): the leaf at key holds value.
TriePut(t, k, v) == {e \in t : e.key # k} \cup {[key |-> k, value |-> v]}

\* trie.root(): a digest of the trie's content, or of content that a
\* rejected put has left unwritten (m).
TrieRoot(t, m) == <<t, m>>

\* libp2p.pubsub.publish(messages.name, canonical), line 349
PublishTwice(out, libp2p, payload) ==
  IF libp2p THEN Append(Append(out, payload), payload) ELSE out
Publish(out, libp2p, payload) == IF libp2p THEN Append(out, payload) ELSE out

\* What libp2p.pubsub.publish does when add calls it: it returns a promise
\* that resolves, rejects or never settles, or it throws before returning.
PublishOutcomes == {"resolves", "rejects", "pending", "throws"}
PromiseOutcomes == PublishOutcomes \ {"throws"}

\* add after trie.put, lines 338-350: without a distributor add returns; with
\* one it calls publish, does not await the promise and returns, and an
\* exception thrown by the call leaves add through no handler.
AddTail(libp2p, pub) ==
  IF libp2p /\ pub = "throws" THEN "PublishFailed" ELSE "ok"

\* metadb.remove(key), line 328: what is left in the store.
MetaRemoveDrops(db, key, deleted) == db \ {key}
MetaRemoveResult(db, key, deleted) == IF deleted THEN db \ {key} ELSE db

\* ---------------------------------------------------- the trie's nodes
\* The trie is a Merkle Patricia trie over paths of nibbles.  A buffer is
\* modelled by its bytes; a digest by the node it was taken of.
Nibbles == 0..15
HashLength == 32

\* Buffer.from(bytes): a key or a value.
Buf(bytes) == [length |-> Len(bytes), data |-> bytes]
EmptyBuf == Buf(<<>>)

\* The reference a node holds to a child: none, the child itself when the
\* child's encoding is shorter than a digest, and else the child's digest.
NoRef == <<>>
RawRef(node) == <<"raw", node>>
Keccak(node) == <<"keccak", node>>
\* What hash() returns for a short node: node.serialize(), its encoding.
Serialized(node) == <<"rlp", node>>
\* keccak256 of the encoding of the empty string: the root of an empty trie.
EMPTY_TRIE_ROOT == <<"keccak-rlp-empty">>

NullNode == [type |-> "null", key |-> <<>>, value |-> EmptyBuf,
             child |-> NoRef, branches |-> <<>>]
LeafNode(key, value) ==
  [type |-> "leaf", key |-> key, value |-> value, child |-> NoRef,
   branches |-> <<>>]
ExtensionNode(key, child) ==
  [type |-> "extension", key |-> key, value |-> EmptyBuf, child |-> child,
   branches |-> <<>>]
BranchNode(branches) ==
  [type |-> "branch", key |-> <<>>, value |-> EmptyBuf, child |-> NoRef,
   branches |-> branches]
\* node.getBranch(i)
GetBranch(node, i) == node.branches[i + 1]

\* The length of the RLP encoding of a byte string and of a list.  Lengths
\* matter up to HashLength only, so the long form's length bytes count as one.
RlpStringLength(length, single) ==
  IF length = 1 /\ single THEN 1
  ELSE IF length <= 55 THEN 1 + length ELSE 2 + length
RlpListLength(payload) == IF payload <= 55 THEN 1 + payload ELSE 2 + payload
\* A path in its compact (hex-prefix) encoding: a flag nibble, a padding
\* nibble when the path is even, then the path; one byte below 0x80 when the
\* path has at most one nibble.
RlpKeyLength(key) == RlpStringLength(Len(key) \div 2 + 1, TRUE)
RlpValueLength(value) ==
  RlpStringLength(value.length, value.length = 1 /\ value.data[1] < 128)

RECURSIVE EncodedLength(_)
RECURSIVE BranchesLength(_, _)
\* rlp.encode(node.raw()).length
EncodedLength(node) ==
  IF node.type = "leaf"
  THEN RlpListLength(RlpKeyLength(node.key) + RlpValueLength(node.value))
  ELSE IF node.type = "extension"
  THEN RlpListLength(RlpKeyLength(node.key)
                     + (IF node.child[1] = "raw"
                        THEN EncodedLength(node.child[2])
                        ELSE 1 + HashLength))
  ELSE RlpListLength(BranchesLength(node, 0) + RlpValueLength(node.value))
BranchesLength(node, i) ==
  IF i \notin Nibbles THEN 0
  ELSE (IF GetBranch(node, i) = NoRef THEN 1
        ELSE IF GetBranch(node, i)[1] = "raw"
        THEN EncodedLength(GetBranch(node, i)[2])
        ELSE 1 + HashLength)
       + BranchesLength(node, i + 1)

\* node instanceof BranchNode || LeafNode || ExtensionNode
IsTrieNode(x) ==
  "type" \in DOMAIN x /\ x.type \in {"branch", "leaf", "extension"}
HashThrows == <<"throws", "Must be BranchNode, LeafNode or ExtensionNode">>

\* hash(node), lines 66-78: the encoding of a node shorter than 32 bytes,
\* the digest of any other; what is not a node is refused.
HashAlwaysDigest(node) == Keccak(node)
hash(node) ==
  IF IsTrieNode(node)
  THEN (IF EncodedLength(node) < HashLength THEN Serialized(node)
        ELSE Keccak(node))
  ELSE HashThrows
\* buffer.length of what hash returns
ByteLength(h) == IF h[1] = "rlp" THEN EncodedLength(h[2]) ELSE HashLength

\* The reference a parent stores for a child (the trie's formatNode).
Ref(node) ==
  IF EncodedLength(node) < HashLength THEN RawRef(node) ELSE Keccak(node)

\* The entries of a trie: [key |-> path of nibbles, value |-> buffer], the
\* keys of one length.  The trie of a set of entries has one shape.
Strip(kvs, n) ==
  {[key |-> SubSeq(e.key, n + 1, Len(e.key)), value |-> e.value] : e \in kvs}
CommonPrefixLength(kvs) ==
  LET e0 == CHOOSE e \in kvs : TRUE
  IN  CHOOSE n \in 0..Len(e0.key) :
        /\ \A e \in kvs : SubSeq(e.key, 1, n) = SubSeq(e0.key, 1, n)
        /\ n < Len(e0.key) =>
             \E e \in kvs : e.key[n + 1] # e0.key[n + 1]

RECURSIVE Build(_)
Build(kvs) ==
  IF Cardinality(kvs) = 1
  THEN LET e == CHOOSE e \in kvs : TRUE IN LeafNode(e.key, e.value)
  ELSE IF CommonPrefixLength(kvs) > 0
  THEN LET e0 == CHOOSE e \in kvs : TRUE
           n  == CommonPrefixLength(kvs)
       IN  ExtensionNode(SubSeq(e0.key, 1, n), Ref(Build(Strip(kvs, n))))
  ELSE BranchNode([j \in 1..16 |->
         LET sub == {e \in kvs : e.key[1] = j - 1}
         IN  IF sub = {} THEN NoRef ELSE Ref(Build(Strip(sub, 1)))])

\* trie.root(): the root node is stored under its digest whatever its length.
Root(kvs) == IF kvs = {} THEN EMPTY_TRIE_ROOT ELSE Keccak(Build(kvs))

\* The nodes of a trie that the backing store holds, each under its digest:
\* the root and every node that is not embedded in its parent.
RECURSIVE Embedded(_)
Embedded(node) ==
  LET refs == IF node.type = "extension" THEN {node.child}
              ELSE IF node.type = "branch"
              THEN {GetBranch(node, i) : i \in Nibbles} \ {NoRef}
              ELSE {}
  IN  UNION {IF r[1] = "raw" THEN Embedded(r[2]) ELSE {r[2]} \cup Embedded(r[2]) :
             r \in refs}
StoredNodes(kvs) ==
  IF kvs = {} THEN {} ELSE {Build(kvs)} \cup Embedded(Build(kvs))

\* ------------------------------------------------- reading the trie
\* bufferToNibbles: two nibbles a byte, the high one first.
BufferToNibbles(buf) ==
  [i \in 1..(2 * buf.length) |->
     IF i % 2 = 1 THEN buf.data[(i + 1) \div 2] \div 16
     ELSE buf.data[i \div 2] % 16]

\* nibblesToBuffer(arr), lines 82-89: a buffer of arr.length / 2 bytes, cut
\* to a whole number, each made of two nibbles.
nibblesToBuffer(arr) ==
  Buf([i \in 1..(Len(arr) \div 2) |-> arr[2 * i - 1] * 16 + arr[2 * i]])

\* Buffer.concat
Concat(buf1, buf2) == Buf(buf1.data \o buf2.data)

IsArray(x) == x # NoRef /\ x[1] = "raw"
IsBuffer(x) == x # NoRef /\ x[1] \in {"rlp", "keccak", "keccak-rlp-empty", "bytes"}

\* isEqual(buf1, buf2), lines 91-103
IsEqualByContent(buf1, buf2) == IF buf1 = buf2 THEN "true" ELSE "false"
isEqual(buf1, buf2) ==
  IF IsArray(buf1) \/ IsArray(buf2) THEN "throws"
  ELSE IF IsBuffer(buf1) /\ IsBuffer(buf2)
  THEN (IF buf1 = buf2 THEN "true" ELSE "false")
  ELSE "false"

MissingNode == "Missing node in DB"
DbFault == "backing store error"
Found(node) == [err |-> "", node |-> node]
Failed(err) == [err |-> err, node |-> NullNode]

\* decodeNode(hash) returns the node when the bytes are a node's encoding
\* and throws on any other bytes, a digest included.
Decodes(h) == h # NoRef /\ h[1] = "rlp"

\* trie.lookupNode(ref): an embedded node is decoded; any buffer is looked up
\* in the backing store, which holds nodes under their digests.
lookupNode(db, ref) ==
  IF IsArray(ref) THEN Found(ref[2])
  ELSE IF ref # NoRef /\ ref[1] = "keccak" /\ ref[2] \in db THEN Found(ref[2])
  ELSE Failed(MissingNode)

\* trie.findPath(key).node: the node that sits at the end of the path, when
\* there is one; a node missing from the store ends the search with none.
RECURSIVE FindPathFrom(_, _, _)
FindPathFrom(db, ref, remainder) ==
  LET r == lookupNode(db, ref)
      node == r.node
      n == Len(node.key)
  IN  IF r.err # "" THEN NullNode
      ELSE IF node.type = "branch"
      THEN IF remainder = <<>> THEN node
           ELSE IF GetBranch(node, remainder[1]) = NoRef THEN NullNode
           ELSE FindPathFrom(db, GetBranch(node, remainder[1]), Tail(remainder))
      ELSE IF node.type = "leaf"
      THEN IF remainder = node.key THEN node ELSE NullNode
      ELSE IF Len(remainder) >= n /\ SubSeq(remainder, 1, n) = node.key
           THEN FindPathFrom(db, node.child, SubSeq(remainder, n + 1, Len(remainder)))
           ELSE NullNode
findPath(db, root, key) == FindPathFrom(db, root, BufferToNibbles(key))

\* A replica as an operation finds it when it reads it: the trie's entries
\* (kept for the claims), the backing store and trie.root().
Replica(kvs, nodes, r) == [kv |-> kvs, db |-> nodes, root |-> r]
NoReplica == Replica({}, {}, NoRef)

\* lookup(trie, hash, key), lines 105-144, in the steps its awaits cut it
\* into.  fault names the read of the backing store that fails with an
\* error other than the missing node.  A read finds what the store holds
\* when the read is called for; the await hands its outcome over when it
\* resumes.  pc tells the await lookup waits at, read what that await will
\* hand over, result what lookup returns once its pc is "done".
Faults == {"none", "lookupNode", "findPath"}
LookupResult(type, node, err) == [type |-> type, node |-> node, err |-> err]
NoResult == LookupResult("", NullNode, "")
Awaiting(pc, read) == [pc |-> pc, read |-> read, result |-> NoResult]
Done(result) == [pc |-> "done", read |-> Found(NullNode), result |-> result]

\* Lines 105-130, the call: decodeNode(hash) decides at once, and else
\* trie.lookupNode(hash) is called and awaited.
LookupDecodesLast(db, h, fault) ==
  IF fault = "lookupNode" THEN Awaiting("node", Failed(DbFault))
  ELSE IF lookupNode(db, h).err = "" THEN Awaiting("node", lookupNode(db, h))
  ELSE IF Decodes(h) THEN Done(LookupResult("missing", h[2], ""))
  ELSE Awaiting("node", lookupNode(db, h))
lookup(db, h, fault) ==
  IF Decodes(h) THEN Done(LookupResult("missing", h[2], ""))
  ELSE IF fault = "lookupNode" THEN Awaiting("node", Failed(DbFault))
  ELSE Awaiting("node", lookupNode(db, h))

\* Lines 130-143, when an await of lookup resumes.  After trie.lookupNode
\* (130): the node found is a match; the missing node makes lookup call
\* trie.findPath(key) on the trie as it is by then (135); any other error
\* is thrown.  After trie.findPath (135-137): its node is a mismatch.
LookupSwallowsFault(db, root, l, key, fault) ==
  IF l.pc = "path"
  THEN Done(LookupResult("mismatch", l.read.node, ""))
  ELSE IF l.read.err = "" THEN Done(LookupResult("match", l.read.node, ""))
  ELSE IF l.read.err # MissingNode \/ fault = "findPath"
  THEN Done(LookupResult("mismatch", NullNode, ""))
  ELSE Awaiting("path", Found(findPath(db, root, key)))
lookupResumed(db, root, l, key, fault) ==
  IF l.pc = "path"
  THEN (IF l.read.err = ""
        THEN Done(LookupResult("mismatch", l.read.node, ""))
        ELSE Done(LookupResult("", NullNode, l.read.err)))
  ELSE IF l.read.err = "" THEN Done(LookupResult("match", l.read.node, ""))
  ELSE IF l.read.err # MissingNode
  THEN Done(LookupResult("", NullNode, l.read.err))
  ELSE IF fault = "findPath" THEN Awaiting("path", Failed(DbFault))
  ELSE Awaiting("path", Found(findPath(db, root, key)))

\* A node descriptor: what descend returns and compare takes.
Descriptor(level, key, h, node) ==
  [level |-> level, key |-> key, hash |-> h, node |-> node]
\* What isEqual throws, line 98.
OnlyBuffers == "Can only compare buffers"

\* compare(localTrie, remotes), lines 146-176, in the steps its awaits cut
\* it into.  A call in progress: the batch, faults[i] the fault of the
\* lookup of the i-th descriptor, i the descriptor the loop is at, lk the
\* lookup it awaits, result the three lists so far, each descriptor in
\* them given by its place in the batch (the lists hold the objects of the
\* batch, and two of these may be equal in content), and for the claims
\* heads, the replica as found at the head of each turn of the loop, and
\* paths[i], the replica as found when the i-th lookup called findPath.
CompareResult(match, mismatch, missing, err) ==
  [match |-> match, mismatch |-> mismatch, missing |-> missing, err |-> err]
CompareCall(remotes, faults) ==
  [op |-> "compare", remotes |-> remotes, faults |-> faults, i |-> 1,
   lk |-> Done(NoResult), result |-> CompareResult(<<>>, <<>>, <<>>, ""),
   pc |-> "loop", heads |-> <<>>,
   paths |-> [j \in 1..Len(remotes) |-> NoReplica]]

\* The head of the loop at the i-th descriptor, lines 149-162: past the
\* last descriptor compare returns (171-175); a level-0 descriptor with the
\* root's hash is a match and ends the loop (150-156); else lookup is
\* called and awaited (158).
RECURSIVE CompareNextNoBreak(_, _)
CompareNextNoBreak(now, c) ==
  IF c.i > Len(c.remotes) THEN [c EXCEPT !.pc = "done"]
  ELSE LET remoteNode == c.remotes[c.i]
           eq == IF remoteNode.level = 0
                 THEN isEqual(now.root, remoteNode.hash) ELSE "false"
           c1 == [c EXCEPT !.heads = Append(@, now)]
       IN  IF eq = "throws"
           THEN [c1 EXCEPT !.pc = "done",
                           !.result = CompareResult(<<>>, <<>>, <<>>, OnlyBuffers)]
           ELSE IF eq = "true"
           THEN CompareNextNoBreak(now,
                  [c1 EXCEPT !.i = @ + 1,
                             !.result.match = Append(@, c.i)])
           ELSE [c1 EXCEPT !.lk = lookup(now.db, remoteNode.hash, c.faults[c.i])]
CompareNextLookupFirst(now, c) ==
  IF c.i > Len(c.remotes) THEN [c EXCEPT !.pc = "done"]
  ELSE LET remoteNode == c.remotes[c.i]
           eq == IF remoteNode.level = 0
                 THEN isEqual(now.root, remoteNode.hash) ELSE "false"
           c1 == [c EXCEPT !.heads = Append(@, now)]
       IN  IF eq = "throws"
           THEN [c1 EXCEPT !.pc = "done",
                           !.result = CompareResult(<<>>, <<>>, <<>>, OnlyBuffers)]
           ELSE IF lookup(now.db, remoteNode.hash, c.faults[c.i]).read.err = DbFault
           THEN [c1 EXCEPT !.pc = "done",
                           !.result = CompareResult(<<>>, <<>>, <<>>, DbFault)]
           ELSE IF eq = "true"
           THEN [c1 EXCEPT !.pc = "done", !.result.match = Append(@, c.i)]
           ELSE [c1 EXCEPT !.lk = lookup(now.db, remoteNode.hash, c.faults[c.i])]
compareNext(now, c) ==
  IF c.i > Len(c.remotes) THEN [c EXCEPT !.pc = "done"]
  ELSE LET remoteNode == c.remotes[c.i]
           eq == IF remoteNode.level = 0
                 THEN isEqual(now.root, remoteNode.hash) ELSE "false"
           c1 == [c EXCEPT !.heads = Append(@, now)]
       IN  IF eq = "throws"
           THEN [c1 EXCEPT !.pc = "done",
                           !.result = CompareResult(<<>>, <<>>, <<>>, OnlyBuffers)]
           ELSE IF eq = "true"
           THEN [c1 EXCEPT !.pc = "done", !.result.match = Append(@, c.i)]
           ELSE [c1 EXCEPT !.lk = lookup(now.db, remoteNode.hash, c.faults[c.i])]

\* compare(localTrie, remotes) is called: the loop comes to its first
\* descriptor.
compare(now, remotes, faults) == compareNext(now, CompareCall(remotes, faults))

\* compare goes on when an await resumes: one inside lookup (130, 135), or
\* the await of lookup itself (158), after which the descriptor is put in
\* its list (163-169) and the loop comes to the next descriptor; an error
\* that lookup throws ends compare with that error.
compareResumed(now, c) ==
  IF c.lk.pc # "done"
  THEN LET l == lookupResumed(now.db, now.root, c.lk, c.remotes[c.i].key,
                              c.faults[c.i])
       IN  [c EXCEPT !.lk = l,
                     !.paths = IF l.pc = "path" THEN [@ EXCEPT ![c.i] = now]
                               ELSE @]
  ELSE LET remoteNode == c.remotes[c.i]
           r == c.lk.result
       IN  IF r.err # ""
           THEN [c EXCEPT !.pc = "done",
                          !.result = CompareResult(<<>>, <<>>, <<>>, r.err)]
           ELSE IF r.type = "match" /\ r.node # NullNode
           THEN compareNext(now, [c EXCEPT !.i = @ + 1,
                                           !.result.match = Append(@, c.i)])
           ELSE IF r.type = "mismatch" /\ r.node # NullNode
           THEN compareNext(now, [c EXCEPT !.i = @ + 1,
                                           !.result.mismatch = Append(@, c.i)])
           ELSE compareNext(now, [c EXCEPT !.i = @ + 1,
                                           !.result.missing = Append(@, c.i)])

\* descend's onFound at the requested depth, lines 205-218: the key of the
\* descriptor.  A leaf found below the root gets the path and its own key,
\* each made into a buffer on its own.
DescriptorKey(node, key, level) ==
  IF level # 0 /\ node.type = "leaf"
  THEN Concat(nibblesToBuffer(key), nibblesToBuffer(node.key))
  ELSE nibblesToBuffer(key)

WalkResult(nodes, err) == [nodes |-> nodes, err |-> err]
\* The walk's promise is neither resolved nor rejected.
Unsettled == "never settles"

\* newWalk(onFound, trie, root, level), the walk controller: a read of a
\* node that the walk has called for, the depth left below the node, and
\* what the read finds, which is what the store holds when the read is
\* called for.
Task(ref, key, currentLevel) ==
  [ref |-> ref, key |-> key, currentLevel |-> currentLevel,
   read |-> Found(NullNode)]
\* walkController.allChildren(node, key, currentLevel), line 221: the reads
\* of the child of an extension and of the children of a branch, in the
\* order in which they are called for.
RECURSIVE BranchTasks(_, _, _, _)
BranchTasks(node, key, currentLevel, i) ==
  IF i \notin Nibbles THEN <<>>
  ELSE (IF GetBranch(node, i) = NoRef THEN <<>>
        ELSE <<Task(GetBranch(node, i), Append(key, i), currentLevel)>>)
       \o BranchTasks(node, key, currentLevel, i + 1)
allChildren(node, key, currentLevel) ==
  IF node.type = "extension"
  THEN <<Task(node.child, key \o node.key, currentLevel)>>
  ELSE IF node.type = "branch" THEN BranchTasks(node, key, currentLevel, 0)
  ELSE <<>>

\* A walk: queue, the reads of embedded nodes, which are handed over first
\* and in the order they were called for; pending, the reads of the backing
\* store, which are handed over in any order; called, the reads onFound has
\* asked for in this turn; nodes, what onFound has recorded; threw, whether
\* the last call of onFound threw; pc and result, whether the walk's
\* promise has settled and with what.
Walk(queue, pending, nodes, threw) ==
  [queue |-> queue, pending |-> pending, called |-> <<>>, nodes |-> nodes,
   threw |-> threw, pc |-> "walking", result |-> WalkResult(<<>>, "")]
Ended(w, result) == [w EXCEPT !.pc = "done", !.result = result]

\* descend's onFound, lines 194-223, on a node the walk has read: isEqual
\* refuses a marked node that is an array (exclude.find meets it before any
\* match; the sets used here hold one marked node at most); a node whose
\* hash is marked is left; at the requested depth the node is recorded;
\* above it the walk goes on to the children of a branch or an extension,
\* one hop deeper.
OnFoundThroughMarked(level, exclude, task, node, w) ==
  LET nodeHash == hash(node)
  IN  IF \E markedNode \in exclude : isEqual(markedNode, nodeHash) = "throws"
      THEN [w EXCEPT !.threw = TRUE]
      ELSE IF task.currentLevel = 0
      THEN IF \E markedNode \in exclude : isEqual(markedNode, nodeHash) = "true"
           THEN w
           ELSE [w EXCEPT !.nodes =
                   Append(@, Descriptor(level,
                                        DescriptorKey(node, task.key, level),
                                        nodeHash, node))]
      ELSE IF node.type \in {"branch", "extension"}
      THEN [w EXCEPT !.called =
              allChildren(node, task.key, task.currentLevel - 1)]
      ELSE w
onFound(level, exclude, task, node, w) ==
  LET nodeHash == hash(node)
  IN  IF \E markedNode \in exclude : isEqual(markedNode, nodeHash) = "throws"
      THEN [w EXCEPT !.threw = TRUE]
      ELSE IF \E markedNode \in exclude : isEqual(markedNode, nodeHash) = "true"
      THEN w
      ELSE IF task.currentLevel = 0
      THEN [w EXCEPT !.nodes =
              Append(@, Descriptor(level, DescriptorKey(node, task.key, level),
                                   nodeHash, node))]
      ELSE IF node.type \in {"branch", "extension"}
      THEN [w EXCEPT !.called =
              allChildren(node, task.key, task.currentLevel - 1)]
      ELSE w

\* The walk controller calls for the reads onFound has asked for: each
\* finds what the store holds now.
Calls(db, w) ==
  LET tasks == [i \in 1..Len(w.called) |->
                  [w.called[i] EXCEPT !.read = lookupNode(db, w.called[i].ref)]]
  IN  [w EXCEPT
         !.called = <<>>,
         !.queue = @ \o SelectSeq(tasks, LAMBDA t : IsArray(t.ref)),
         !.pending = @ \cup {tasks[i] : i \in {j \in 1..Len(tasks) :
                                                ~IsArray(tasks[j].ref)}}]
\* The reads that may be handed over next.
Due(w) == IF w.queue # <<>> THEN {Head(w.queue)} ELSE w.pending
\* One turn of the walk: a read is handed over.  A read that found its
\* node missing, or a store that failed, rejects the walk's promise at
\* once; the reads still under way are handed over all the same, in later
\* turns, and a promise that has settled stays as it is.  Else the node
\* goes to onFound and the reads it asks for are called for; the walk
\* resolves when onFound returns and no read is left, and stays unsettled
\* when that last onFound threw, its error being lost with the task that
\* ran it.  result.nodes is the array onFound pushes to, which is the one
\* descend returns (lines 229 and 234): it grows under the caller's eyes
\* while reads are left.
Turn(db, level, exclude, w, task) ==
  LET rest == [w EXCEPT !.queue = IF w.queue # <<>> THEN Tail(@) ELSE @,
                        !.pending = IF w.queue # <<>> THEN @ ELSE @ \ {task},
                        !.threw = FALSE]
      w1 == IF task.read.err # "" THEN rest
            ELSE Calls(db, onFound(level, exclude, task, task.read.node, rest))
  IN  IF w.pc = "done"
      THEN [w1 EXCEPT !.result.nodes = w1.nodes]
      ELSE IF task.read.err # ""
      THEN Ended(w1, WalkResult(w1.nodes, task.read.err))
      ELSE IF w1.queue = <<>> /\ w1.pending = {}
      THEN Ended(w1, IF w1.threw THEN WalkResult(<<>>, Unsettled)
                     ELSE WalkResult(w1.nodes, ""))
      ELSE w1
\* newWalk is called, line 225: the walk calls for the node of the root.
newWalk(root, level, read) ==
  Walk(<<>>, {[Task(root, <<>>, level) EXCEPT !.read = read]}, <<>>, FALSE)
\* The outcomes of a walk on a store that is not written to meanwhile:
\* what its caller may find once the promise has settled, at once or after
\* any of the turns that are left.
RECURSIVE WalkRuns(_, _, _, _)
WalkRuns(db, level, exclude, w) ==
  (IF w.pc = "done" THEN {w.result} ELSE {})
    \cup UNION {WalkRuns(db, level, exclude, Turn(db, level, exclude, w, t)) :
                  t \in Due(w)}

\* The catch of descend, lines 226-233: the missing node ends descend with
\* what was collected, any other error is thrown on.
Caught(w) ==
  IF w.err = "" \/ w.err = MissingNode THEN WalkResult(w.nodes, "")
  ELSE WalkResult(<<>>, w.err)

\* descend(trie, level, exclude), lines 178-235, up to its await: on the
\* empty trie at level 0 it returns the sentinel, else it calls newWalk.
\* With fault set the first read of the backing store fails with an error
\* other than the missing node.
descendCalled(db, root, level, exclude, fault) ==
  IF level = 0 /\ isEqual(EMPTY_TRIE_ROOT, root) = "true"
  THEN Ended(Walk(<<>>, {}, <<>>, FALSE),
             WalkResult(<<Descriptor(0, EmptyBuf, root, NullNode)>>, ""))
  ELSE newWalk(root, level,
               IF fault THEN Failed(DbFault) ELSE lookupNode(db, root))
\* What descend may return or throw on a store that is not written to
\* while it walks.
descend(db, root, level, exclude, fault) ==
  {Caught(r) : r \in WalkRuns(db, level, exclude,
                              descendCalled(db, root, level, exclude, fault))}

\* ------------------------------------------------ walking the leaves
\* An argument that may be left out: undefined, or a number.
Undefined == <<>>
Num(n) == <<n>>
IsInteger(x) == x # Undefined

\* decode(node.value()), line 480: the message a leaf's value encodes.
Decode(value) == [decoded |-> value.data]

\* parser(value): the message read from the decoded value, with the fields
\* of the canonical encoding.
Parse(value) ==
  [href |-> value.decoded[1], type |-> value.decoded[2],
   timestamp |-> value.decoded[3], signer |-> value.decoded[4]]

\* leaves(trie, from, amount, parser, startDatetime, href,
\* root = trie.root()), lines 456-467: the call takes the root and starts
\* walkTrieDfs(trie, root, []).  The stack holds the calls of walkTrieDfs
\* that are still to be made, keys the key of every [node, key] that
\* walkTrieDfs has yielded, read what the await of trie.lookupNode for the
\* call at the top of the stack will hand over.
StartLeavesWith(r, from, amount, parser, startDatetime, href) ==
  [pc |-> "walking", root |-> r, from |-> from, amount |-> amount,
   parser |-> parser, startDatetime |-> startDatetime, href |-> href,
   stack |-> <<<<r, <<>>>>>>, keys |-> <<>>, pointer |-> 0, nodes |-> <<>>,
   read |-> Found(NullNode), err |-> ""]
\* The call with no parser and no filter.
StartLeaves(r, from, amount) ==
  StartLeavesWith(r, from, amount, FALSE, Undefined, Undefined)

\* parsed.timestamp < startDatetime, line 483: false when startDatetime is
\* left out.
TooEarly(parsed, startDatetime) ==
  startDatetime # Undefined /\ parsed.timestamp < startDatetime[1]
\* href && normalizeUrl(parsed.href) !== normalizeUrl(href), line 486
OtherHref(parsed, href) ==
  href # Undefined /\ normalizeUrl(parsed.href) # normalizeUrl(href[1])

\* The body of the for-await loop of leaves, lines 469-494, on one leaf that
\* walkTrieDfs yields: the leaf is counted by pointer before any filter is
\* looked at.
OnLeafNoBreak(w, node, rest) ==
  IF IsInteger(w.from) /\ w.pointer + 1 <= w.from[1]
  THEN [w EXCEPT !.pointer = @ + 1, !.stack = rest]
  ELSE IF w.parser /\ (\/ TooEarly(Parse(Decode(node.value)), w.startDatetime)
                       \/ OtherHref(Parse(Decode(node.value)), w.href))
  THEN [w EXCEPT !.pointer = @ + 1, !.stack = rest]
  ELSE [w EXCEPT !.pointer = @ + 1, !.stack = rest,
                 !.nodes = Append(@, IF w.parser THEN Parse(Decode(node.value))
                                     ELSE Decode(node.value))]
OnLeaf(w, node, rest) ==
  IF IsInteger(w.amount) /\ Len(w.nodes) >= w.amount[1]
  THEN [w EXCEPT !.pc = "done", !.stack = <<>>]
  ELSE IF IsInteger(w.from) /\ w.pointer + 1 <= w.from[1]
  THEN [w EXCEPT !.pointer = @ + 1, !.stack = rest]
  ELSE IF w.parser /\ (\/ TooEarly(Parse(Decode(node.value)), w.startDatetime)
                       \/ OtherHref(Parse(Decode(node.value)), w.href))
  THEN [w EXCEPT !.pointer = @ + 1, !.stack = rest]
  ELSE [w EXCEPT !.pointer = @ + 1, !.stack = rest,
                 !.nodes = Append(@, IF w.parser THEN Parse(Decode(node.value))
                                     ELSE Decode(node.value))]

\* The children of a branch from the i-th on, as calls of walkTrieDfs.
RECURSIVE BranchCalls(_, _, _)
RECURSIVE BranchCallsDescending(_, _, _)
BranchCallsDescending(node, key, i) ==
  IF i \notin Nibbles THEN <<>>
  ELSE BranchCallsDescending(node, key, i + 1)
       \o (IF GetBranch(node, i) = NoRef THEN <<>>
           ELSE <<<<GetBranch(node, i), Append(key, i)>>>>)
BranchCalls(node, key, i) ==
  IF i \notin Nibbles THEN <<>>
  ELSE (IF GetBranch(node, i) = NoRef THEN <<>>
        ELSE <<<<GetBranch(node, i), Append(key, i)>>>>)
       \o BranchCalls(node, key, i + 1)

\* walkTrieDfs comes to the call at the top of the stack, lines 504-513:
\* trie.lookupNode(nodeRef) is called, which finds what the store holds by
\* now; the root of the empty trie is not read.
Reads(nodes, w) ==
  [w EXCEPT !.read =
     IF w.pc = "walking" /\ w.stack # <<>>
        /\ Head(w.stack)[1] # EMPTY_TRIE_ROOT
     THEN lookupNode(nodes, Head(w.stack)[1])
     ELSE Found(NullNode)]

\* One call of walkTrieDfs(trie, nodeRef, key), lines 504-536, from where
\* its await of trie.lookupNode resumes up to the next such await: the
\* empty root yields nothing, a node missing from the store makes the walk
\* and leaves throw, a leaf is yielded to leaves, an extension and a branch
\* call on for their children.
Finish(w) == IF w.pc = "walking" /\ w.stack = <<>> THEN [w EXCEPT !.pc = "done"] ELSE w
WalkStepOf(nodes, w) ==
  LET nodeRef == Head(w.stack)[1]
      key == Head(w.stack)[2]
      rest == Tail(w.stack)
      r == w.read
      node == r.node
  IN  Reads(nodes, Finish(
        IF IsBuffer(nodeRef) /\ nodeRef = EMPTY_TRIE_ROOT
        THEN [w EXCEPT !.stack = rest]
        ELSE IF r.err # ""
        THEN [w EXCEPT !.pc = "failed", !.err = r.err, !.stack = <<>>]
        ELSE IF node.type = "leaf"
        THEN OnLeaf([w EXCEPT !.keys = Append(@, key)], node, rest)
        ELSE IF node.type = "extension"
        THEN [w EXCEPT !.stack = <<<<node.child, key \o node.key>>>> \o rest]
        ELSE IF node.type = "branch"
        THEN [w EXCEPT !.stack = BranchCalls(node, key, 0) \o rest]
        ELSE [w EXCEPT !.pc = "failed", !.err = "Unknown node type",
                       !.stack = <<>>]))

\* leaves run to its end on a store that does not change.
RECURSIVE RunLeaves(_, _)
RunLeaves(nodes, w) ==
  IF w.pc # "walking" THEN w
  ELSE RunLeaves(nodes, WalkStepOf(nodes, Reads(nodes, w)))

\* --------------------------------------------- the messages in the trie
\* add, line 309: trie.put(Buffer.from(index, "hex"), canonical).  The index
\* is the timestamp followed by the digest of the message; the digest is
\* modelled by a code that tells any two messages of one timestamp apart.
SignerCode(signer) ==
  CASE signer = "0xA1" -> 0
    [] signer = "0xD1" -> 1
    [] signer = "0xEE" -> 2
    [] OTHER -> 3
DigestNibbles(payload) ==
  <<SignerCode(payload[4]),
    (IF payload[1] = "https://x.example" THEN 0 ELSE 2)
      + (IF payload[2] = "submit" THEN 0 ELSE 1)>>
IndexPath(i) == <<i[1] \div 16, i[1] % 16>> \o DigestNibbles(i[2])
\* The canonical encoding as a buffer: it holds a signature of 65 bytes, so
\* the leaf that holds it is never shorter than a digest.
SignatureLength == 65
CanonicalBuf(payload) == [length |-> SignatureLength, data |-> payload]
Entries(t) ==
  {[key |-> IndexPath(e.key), value |-> CanonicalBuf(e.value)] : e \in t}

\* ------------------------------------------------------------- state
VARIABLES
  trie,       \* the leaves of the trie: [key, value]
  metadb,     \* the keys of the constraints database (each maps to true)
  published,  \* the payloads handed to libp2p.pubsub.publish, in order
  call,       \* call[p]: the add call running in slot p, past its checks
  invoked,    \* the most recent add call: its message, synching and what
              \* its checks said ("passes" or the error thrown)
  settled,    \* how the most recent call that got past its checks ended
  nowMs,      \* Date.now()
  nCalls,     \* the number of add calls made
  okCount,    \* history: per DedupKey, the add calls that returned normally
  seen,       \* history: the keys passes has been called with
  removed,    \* history: the keys metadb.remove has deleted
  stuck,      \* history: keys left in metadb by a failed rollback
  succeeded,  \* history: the payloads of the add calls that returned normally
  moved,      \* trie.root() is a root whose nodes the backing store does
              \* not hold: a trie.put has set it and its write is pending
              \* or was rejected
  lock,       \* the trie's put lock: the calls that have asked for it, the
              \* holder first
  rolledBack, \* history: the keys whose removal an add call has reported as
              \* done, with no add call of the key made since
  kv,         \* a replica's trie by its entries: [key: path, value: buffer]
  db,         \* the replica's backing store: the nodes it holds by digest
  root,       \* the replica's trie.root()
  sync,       \* the most recent lookup, compare or descend and its result
  walk,       \* the leaves traversal that is running
  checkpoints \* the open checkpoints of the trie, the oldest first

addVars == <<trie, metadb, published, call, invoked, settled, nowMs, nCalls,
             okCount, seen, removed, stuck, succeeded, moved, rolledBack, lock>>
replicaVars == <<kv, db, root, sync, walk, checkpoints>>
vars == <<addVars, replicaVars>>

NoMsg == [signer |-> NoAddress, href |-> "", type |-> "", timestamp |-> 0]
IdleCall == [pc |-> "idle", message |-> NoMsg, libp2p |-> FALSE,
             notFound |-> FALSE, deleted |-> FALSE, afterAdmit |-> FALSE,
             afterStuck |-> FALSE, afterRollback |-> FALSE, put |-> ""]
NoneInvoked == [message |-> NoMsg, synching |-> FALSE, checks |-> "none"]
NoneSettled == [outcome |-> "none", rolledBack |-> FALSE]

InitStores ==
  /\ trie = {}
  /\ metadb = {}
  /\ published = <<>>
  /\ okCount = [k \in Keys |-> 0]
  /\ seen = {}
  /\ nCalls = 0
  /\ succeeded = {}

NoSync == [op |-> "none"]
NoWalk == [pc |-> "idle"]
InitReplica ==
  /\ kv = {}
  /\ db = {}
  /\ root = Root(kv)
  /\ sync = NoSync
  /\ walk = NoWalk

InitCalls ==
  /\ checkpoints = <<>>
  /\ call = [p \in Procs |-> IdleCall]
  /\ invoked = NoneInvoked
  /\ settled = NoneSettled
  /\ nowMs = ClockStartMs
  /\ removed = {}
  /\ stuck = {}
  /\ moved = FALSE
  /\ rolledBack = {}
  /\ lock = <<>>

InitRest == InitReplica /\ InitCalls

Init == InitStores /\ InitRest

\* Date.now() advances.
Tick ==
  /\ nowMs < ClockEndMs
  /\ nowMs' = nowMs + TickMs
  /\ UNCHANGED <<trie, metadb, published, call, invoked, settled, nCalls,
                 okCount, seen, removed, stuck, succeeded, moved, rolledBack,
                 lock>>
  /\ UNCHANGED replicaVars

\* add(trie, message, libp2p, allowlist, delegations, synching, metadb) up to
\* its first await: a message that fails a check is thrown out here.
AddRejected(p, message, synching, libp2p) ==
  /\ call[p].pc = "idle"
  /\ \A q \in Procs : q < p => call[q].pc # "idle"
  /\ nCalls < MaxCalls
  /\ Validate(message, synching, nowMs) # "passes"
  /\ nCalls' = nCalls + 1
  /\ invoked' = [message |-> message, synching |-> synching,
                 checks |-> Validate(message, synching, nowMs)]
  /\ UNCHANGED <<trie, metadb, published, call, settled, nowMs, okCount, seen,
                 removed, stuck, succeeded, moved, rolledBack, lock>>
  /\ UNCHANGED replicaVars

\* A message that passes the checks: add computes the key, calls passes, and
\* passes reads the key (db.get) and awaits.
AddPasses(p, message, synching, libp2p) ==
  /\ call[p].pc = "idle"
  /\ \A q \in Procs : q < p => call[q].pc # "idle"
  /\ nCalls < MaxCalls
  /\ Validate(message, synching, nowMs) = "passes"
  /\ nCalls' = nCalls + 1
  /\ invoked' = [message |-> message, synching |-> synching, checks |-> "passes"]
  /\ call' = [call EXCEPT ![p] =
                [pc |-> "dbput", message |-> message, libp2p |-> libp2p,
                 notFound |-> PassesGet(metadb, DedupKey(message)),
                 deleted |-> FALSE,
                 afterAdmit |-> okCount[DedupKey(message)] > 0,
                 afterStuck |-> DedupKey(message) \in stuck,
                 afterRollback |-> DedupKey(message) \in rolledBack,
                 put |-> ""]]
  /\ rolledBack' = rolledBack \ {DedupKey(message)}
  /\ UNCHANGED <<trie, metadb, published, settled, nowMs, okCount, seen, removed,
                 stuck, succeeded, moved, lock>>
  /\ UNCHANGED replicaVars

\* db.get has resolved: passes calls db.put, which sets the key, and awaits.
PassesPut(p) ==
  /\ call[p].pc = "dbput"
  /\ metadb' = PassesSet(metadb, DedupKey(call[p].message))
  /\ seen' = seen \cup {DedupKey(call[p].message)}
  /\ call' = [call EXCEPT ![p].pc = "putwait"]
  /\ UNCHANGED <<trie, published, invoked, settled, nowMs, nCalls, okCount,
                 removed, stuck, succeeded, moved, rolledBack, lock>>
  /\ UNCHANGED replicaVars

\* db.put has resolved: passes returns what db.get had read; add throws on a
\* duplicate and otherwise calls trie.put, which asks for the trie's lock:
\* it has the lock at once when no put holds it, and otherwise waits in
\* line behind the puts that asked before.
PassesReturn(p) ==
  /\ call[p].pc = "putwait"
  /\ IF call[p].notFound
     THEN /\ call' = [call EXCEPT ![p].pc = "trieput", ![p].put = "called"]
          /\ lock' = Append(lock, p)
          /\ UNCHANGED settled
     ELSE /\ call' = [call EXCEPT ![p] = IdleCall]
          /\ settled' = [outcome |-> "Duplicate", rolledBack |-> FALSE]
          /\ UNCHANGED lock
  /\ UNCHANGED <<trie, metadb, published, invoked, nowMs, nCalls, okCount, seen,
                 removed, stuck, succeeded, moved, rolledBack>>
  /\ UNCHANGED replicaVars

\* The put lock of the trie (trie library): the call at the head holds it.
\* A put releases the lock as the last thing it does, and a put that is
\* rejected does not get there: the lock stays taken by a put that is over.
Leaked == 0

\* trie.put, holding the lock, has found the place of the leaf: it sets the
\* root to that of the trie with the leaf and hands the new nodes to the
\* backing store.  Until they are written the root names nodes the store
\* does not hold.
TriePutRoot(p) ==
  /\ call[p].pc = "trieput"
  /\ call[p].put = "called"
  /\ lock # <<>> /\ Head(lock) = p
  /\ moved' = TRUE
  /\ call' = [call EXCEPT ![p].put = "root"]
  /\ UNCHANGED <<trie, metadb, published, invoked, settled, nowMs, nCalls,
                 okCount, seen, removed, stuck, succeeded, rolledBack, lock>>
  /\ UNCHANGED replicaVars

\* The backing store has written the nodes: the leaf is in the trie, the put
\* releases the lock and its promise is resolved.  add, waiting at line 309,
\* goes on in a later step.
TriePutWritten(p) ==
  /\ call[p].pc = "trieput"
  /\ call[p].put = "root"
  /\ trie' = TriePut(trie, index(call[p].message), canonical(call[p].message))
  /\ moved' = FALSE
  /\ lock' = Tail(lock)
  /\ call' = [call EXCEPT ![p].put = "written"]
  /\ UNCHANGED <<metadb, published, invoked, settled, nowMs, nCalls, okCount,
                 seen, removed, stuck, succeeded, rolledBack>>
  /\ UNCHANGED replicaVars

\* The backing store rejects a read on the way to the leaf's place, with the
\* trie as it was, or the write of the new nodes, with the root already
\* set: the put is rejected and the lock is not released.  add, waiting at
\* line 309, goes on in a later step.
TriePutRejected(p) ==
  /\ call[p].pc = "trieput"
  /\ call[p].put \in {"called", "root"}
  /\ lock # <<>> /\ Head(lock) = p
  /\ lock' = <<Leaked>> \o Tail(lock)
  /\ call' = [call EXCEPT ![p].put = "rejected"]
  /\ UNCHANGED <<trie, metadb, published, invoked, settled, nowMs, nCalls,
                 okCount, seen, removed, stuck, succeeded, moved, rolledBack>>
  /\ UNCHANGED replicaVars

\* add resumes with trie.put resolved: the message is stored and, with a
\* distributor, handed to libp2p.pubsub.publish; pub is what that call does.
\* The call is neither awaited nor guarded: add returns when publish returns
\* its promise and is left with the exception when publish throws.
TriePutOk(p, pub) ==
  /\ call[p].pc = "trieput"
  /\ call[p].put = "written"
  /\ pub = "throws" => call[p].libp2p
  /\ published' = Publish(published, call[p].libp2p, canonical(call[p].message))
  /\ okCount' = IF AddTail(call[p].libp2p, pub) = "ok"
                THEN [okCount EXCEPT ![DedupKey(call[p].message)] = @ + 1]
                ELSE okCount
  /\ succeeded' = IF AddTail(call[p].libp2p, pub) = "ok"
                  THEN succeeded \cup {canonical(call[p].message)}
                  ELSE succeeded
  /\ call' = [call EXCEPT ![p] = IdleCall]
  /\ settled' = [outcome |-> AddTail(call[p].libp2p, pub), rolledBack |-> FALSE]
  /\ UNCHANGED <<trie, metadb, invoked, nowMs, nCalls, seen, removed, stuck,
                 moved, rolledBack, lock>>
  /\ UNCHANGED replicaVars

\* add resumes with trie.put rejected: it enters its catch block and calls
\* metadb.remove, which deletes the key or not: a key that is not there is
\* not deleted, and the store may fail to delete one that is.
TriePutFail(p, deleted) ==
  /\ call[p].pc = "trieput"
  /\ call[p].put = "rejected"
  /\ deleted => DedupKey(call[p].message) \in metadb
  /\ metadb' = MetaRemoveResult(metadb, DedupKey(call[p].message), deleted)
  /\ removed' = IF deleted THEN removed \cup {DedupKey(call[p].message)} ELSE removed
  /\ stuck' = IF ~deleted /\ DedupKey(call[p].message) \in metadb
              THEN stuck \cup {DedupKey(call[p].message)} ELSE stuck
  /\ call' = [call EXCEPT ![p].pc = "remove", ![p].deleted = deleted]
  /\ UNCHANGED <<trie, published, invoked, settled, nowMs, nCalls, okCount, seen,
                 succeeded, moved, rolledBack, lock>>
  /\ UNCHANGED replicaVars

\* metadb.remove has resolved with whether it deleted the key: add throws,
\* saying so.
MetaRemove(p) ==
  /\ call[p].pc = "remove"
  /\ call' = [call EXCEPT ![p] = IdleCall]
  /\ settled' = [outcome |-> "StorageWriteFailed", rolledBack |-> call[p].deleted]
  /\ rolledBack' = IF call[p].deleted
                   THEN rolledBack \cup {DedupKey(call[p].message)}
                   ELSE rolledBack
  /\ UNCHANGED <<trie, metadb, published, invoked, nowMs, nCalls, okCount, seen,
                 removed, stuck, succeeded, moved, lock>>
  /\ UNCHANGED replicaVars

\* Add calls interleave at their awaits.  The calls are not synching: the
\* flag enters the timestamp check alone, which SpecOne runs on every input.
\* The distributor's publish returns a promise; SpecSeq has the one that throws.
Next ==
  \/ \E p \in Procs, m \in FewMsgs, s \in {FALSE}, l \in BOOLEAN :
        AddRejected(p, m, s, l)
  \/ \E p \in Procs, m \in FewMsgs, s \in {FALSE}, l \in BOOLEAN :
        AddPasses(p, m, s, l)
  \/ \E p \in Procs : PassesPut(p)
  \/ \E p \in Procs : PassesReturn(p)
  \/ \E p \in Procs : TriePutRoot(p)
  \/ \E p \in Procs : TriePutWritten(p)
  \/ \E p \in Procs : TriePutRejected(p)
  \/ \E p \in Procs, pub \in PromiseOutcomes : TriePutOk(p, pub)
  \/ \E p \in Procs, deleted \in BOOLEAN : TriePutFail(p, deleted)
  \/ \E p \in Procs : MetaRemove(p)

Spec == Init /\ [][Next]_vars

\* One add call at a time: a call is made only when none is running.
Quiet == \A p \in Procs : call[p].pc = "idle"

NextSeq ==
  \/ \E p \in Procs, m \in FewMsgs, s \in BOOLEAN, l \in BOOLEAN :
        Quiet /\ AddRejected(p, m, s, l)
  \/ \E p \in Procs, m \in FewMsgs, s \in BOOLEAN, l \in BOOLEAN :
        Quiet /\ AddPasses(p, m, s, l)
  \/ \E p \in Procs : PassesPut(p)
  \/ \E p \in Procs : PassesReturn(p)
  \/ \E p \in Procs : TriePutRoot(p)
  \/ \E p \in Procs : TriePutWritten(p)
  \/ \E p \in Procs : TriePutRejected(p)
  \/ \E p \in Procs, pub \in PublishOutcomes : TriePutOk(p, pub)
  \/ \E p \in Procs, deleted \in BOOLEAN : TriePutFail(p, deleted)
  \/ \E p \in Procs : MetaRemove(p)

SpecSeq == Init /\ [][NextSeq]_vars

\* ------------------------------------------- soft writes under a checkpoint
\* The caller of add writes softly: it opens a checkpoint of the trie, makes
\* add calls, and commits or reverts.  A checkpoint keeps the trie as it
\* was; the constraints database has no checkpoint, passes writes to it
\* directly (lines 243-257).
MaxCheckpoints == 2
Saved(t, m, meta) == [trie |-> t, moved |-> m, metadb |-> meta]
MetaRevertsToo(meta, saved) == saved.metadb
MetaAfterRevert(meta, saved) == meta

\* trie.checkpoint()
Checkpoint ==
  /\ Quiet
  /\ Len(checkpoints) < MaxCheckpoints
  /\ checkpoints' = Append(checkpoints, Saved(trie, moved, metadb))
  /\ UNCHANGED <<kv, db, root, sync, walk>>
  /\ UNCHANGED addVars

\* trie.commit(): the newest checkpoint is dropped and the trie kept.  It
\* asks for the put lock first: on a lock that a rejected put has not
\* released it waits, and nothing changes.
Commit ==
  /\ Quiet
  /\ checkpoints # <<>>
  /\ checkpoints' = IF lock # <<>> THEN checkpoints
                    ELSE SubSeq(checkpoints, 1, Len(checkpoints) - 1)
  /\ UNCHANGED <<kv, db, root, sync, walk>>
  /\ UNCHANGED addVars

\* trie.revert(): the trie goes back to the newest checkpoint.  It asks for
\* the put lock first: on a lock that a rejected put has not released it
\* waits, and nothing changes.
Revert ==
  /\ Quiet
  /\ checkpoints # <<>>
  /\ IF lock # <<>>
     THEN UNCHANGED <<trie, moved, metadb, checkpoints>>
     ELSE /\ trie' = checkpoints[Len(checkpoints)].trie
          /\ moved' = checkpoints[Len(checkpoints)].moved
          /\ metadb' = MetaAfterRevert(metadb, checkpoints[Len(checkpoints)])
          /\ checkpoints' = SubSeq(checkpoints, 1, Len(checkpoints) - 1)
  /\ UNCHANGED <<published, call, invoked, settled, nowMs, nCalls, okCount,
                 seen, removed, stuck, succeeded, rolledBack, lock>>
  /\ UNCHANGED <<kv, db, root, sync, walk>>

NextSoft ==
  \/ NextSeq
  \/ Checkpoint
  \/ Commit
  \/ Revert

SpecSoft == Init /\ [][NextSoft]_vars

\* One add call of any message, at any time of the clock, on stores that hold
\* the messages of a set of earlier calls, each admitted once.
Admitted(ms) ==
  /\ trie = {[key |-> index(m), value |-> canonical(m)] : m \in ms}
  /\ metadb = {DedupKey(m) : m \in ms}
  /\ seen = metadb
  /\ okCount = [k \in Keys |-> IF k \in metadb THEN 1 ELSE 0]
  /\ published = <<>>
  /\ succeeded = {canonical(m) : m \in ms}
  /\ nCalls = MaxCalls - 1

InitOne ==
  /\ \E ms \in SUBSET {m \in FewMsgs : Validate(m, FALSE, ClockStartMs) = "passes"} :
        /\ \A m1, m2 \in ms : DedupKey(m1) = DedupKey(m2) => m1 = m2
        /\ Admitted(ms)
  /\ InitRest

NextOne ==
  \/ Tick
  \/ \E p \in Procs, m \in Msgs, s \in BOOLEAN, l \in BOOLEAN :
        Quiet /\ AddRejected(p, m, s, l)
  \/ \E p \in Procs, m \in Msgs, s \in BOOLEAN, l \in BOOLEAN :
        Quiet /\ AddPasses(p, m, s, l)
  \/ \E p \in Procs : PassesPut(p)
  \/ \E p \in Procs : PassesReturn(p)
  \/ \E p \in Procs : TriePutRoot(p)
  \/ \E p \in Procs : TriePutWritten(p)
  \/ \E p \in Procs : TriePutRejected(p)
  \/ \E p \in Procs, pub \in PromiseOutcomes : TriePutOk(p, pub)
  \/ \E p \in Procs, deleted \in BOOLEAN : TriePutFail(p, deleted)
  \/ \E p \in Procs : MetaRemove(p)

SpecOne == InitOne /\ [][NextOne]_vars

\* ------------------------------------------------- two replicas in sync
MaxLevel == 2

\* The keys and values put into a replica: one-byte keys, and values that
\* make a leaf shorter than a digest or not.
SyncKeys == {Buf(<<0>>), Buf(<<1>>), Buf(<<16>>)}
SyncValues == {Buf(<<65>>), Buf([i \in 1..HashLength |-> 66])}
Entry(key, value) == [key |-> BufferToNibbles(key), value |-> value]

\* trie.put(key, value) on the backing store, with useNodePruning off
\* (create, lines 29-50): the nodes of the new trie are written and no node
\* of an older trie is deleted.
PutNodes(nodes, kvs) == nodes \cup StoredNodes(kvs)

\* The tries a remote replica may hold, and what its descend may return.
Tries ==
  {t \in SUBSET {Entry(k, v) : k \in SyncKeys, v \in SyncValues} :
     \A e1, e2 \in t : e1.key = e2.key => e1 = e2}
Levels == 0..MaxLevel
RemoteDescend(t, level) ==
  {w.nodes : w \in descend(StoredNodes(t), Root(t), level, {}, FALSE)}
\* Bytes that are neither a node's encoding nor the digest of one.
Garbage == <<"bytes", 7>>
\* A batch of remote descriptors: what a remote descend returned, as it is
\* or with one more descriptor put in at some place: a root descriptor with
\* the digest of the local root, or one with a hash nobody holds.
PlainBatches == UNION {RemoteDescend(t, l) : t \in Tries, l \in Levels}
RemoteDescriptors ==
  UNION {{b[i] : i \in 1..Len(b)} : b \in PlainBatches}
    \cup {Descriptor(l, k, Garbage, NullNode) : l \in Levels, k \in SyncKeys}
InsertAt(seq, i, d) == SubSeq(seq, 1, i - 1) \o <<d>> \o SubSeq(seq, i, Len(seq))
Extras(r) ==
  {Descriptor(0, EmptyBuf, r, NullNode),
   Descriptor(MaxLevel, Buf(<<0>>), Garbage, NullNode)}
\* The store fails at no lookup, or at one of them.
NoFaults(n) == [i \in 1..n |-> "none"]
FaultSeqs(n) ==
  {NoFaults(n)}
    \cup {[i \in 1..n |-> IF i = j THEN f ELSE "none"] :
            j \in 1..n, f \in Faults \ {"none"}}
Excludes == {{}} \cup {{d.hash} : d \in RemoteDescriptors}

\* The replica as an operation finds it now.
Now == Replica(kv, db, root)
\* A trie.put has given the trie its new root and the backing store has not
\* written the nodes of that root yet.
Writing == root # EMPTY_TRIE_ROOT /\ root[2] \notin db

\* trie.put(key, value) up to its write: the trie has its new root from
\* here on, and the nodes of the new trie are handed to the backing store
\* in one batch that trie.put awaits.  A put waits for the one before it.
Put(key, value) ==
  /\ ~Writing
  /\ \A e \in kv : e.key # BufferToNibbles(key)
  /\ kv' = kv \cup {Entry(key, value)}
  /\ root' = Root(kv')
  /\ UNCHANGED <<db, sync, walk, checkpoints>>
  /\ UNCHANGED addVars

\* The backing store has written the batch and trie.put returns.
PutBatch ==
  /\ Writing
  /\ db' = PutNodes(db, kv)
  /\ UNCHANGED <<kv, root, sync, walk, checkpoints>>
  /\ UNCHANGED addVars

\* One lookup, compare or descend at a time is made on the replica, while
\* trie.put may be called and may write at any of its awaits; its result
\* is held until the caller has taken it.  head and path are the replica
\* as lookup found it when it was called and when it called findPath.
Lookup(d, fault) ==
  /\ sync = NoSync
  /\ sync' = [op |-> "lookup", hash |-> d.hash, key |-> d.key, fault |-> fault,
              lk |-> lookup(db, d.hash, fault), head |-> Now,
              path |-> NoReplica]
  /\ UNCHANGED <<kv, db, root, walk, checkpoints>>
  /\ UNCHANGED addVars

\* An await of lookup resumes.
LookupResumes ==
  /\ sync.op = "lookup"
  /\ sync.lk.pc # "done"
  /\ LET l == lookupResumed(db, root, sync.lk, sync.key, sync.fault)
     IN  sync' = [sync EXCEPT !.lk = l,
                              !.path = IF l.pc = "path" THEN Now ELSE @]
  /\ UNCHANGED <<kv, db, root, walk, checkpoints>>
  /\ UNCHANGED addVars

Compare(remotes, faults) ==
  /\ sync = NoSync
  /\ sync' = compare(Now, remotes, faults)
  /\ UNCHANGED <<kv, db, root, walk, checkpoints>>
  /\ UNCHANGED addVars

\* An await of compare, or of the lookup it called, resumes.
CompareResumes ==
  /\ sync.op = "compare"
  /\ sync.pc # "done"
  /\ sync' = compareResumed(Now, sync)
  /\ UNCHANGED <<kv, db, root, walk, checkpoints>>
  /\ UNCHANGED addVars

\* descend is called: it returns the sentinel, or calls newWalk, which
\* calls for the node of the root of the moment, and awaits.  head is the
\* replica as descend found it.
Descend(level, exclude, fault) ==
  /\ sync = NoSync
  /\ LET w == descendCalled(db, root, level, exclude, fault)
     IN  sync' = [op |-> "descend", level |-> level, exclude |-> exclude,
                  fault |-> fault, w |-> w, pc |-> w.pc,
                  result |-> Caught(w.result), head |-> Now]
  /\ UNCHANGED <<kv, db, root, walk, checkpoints>>
  /\ UNCHANGED addVars

\* A turn of descend's walk: a read is handed over, onFound runs on its
\* node and the reads of the children are called for; with the last of
\* them the walk settles and descend returns or throws.  After a read
\* that was rejected descend has returned or thrown, and the turns of the
\* reads that are left go on pushing to the array it returned.
DescendResumes ==
  /\ sync.op = "descend"
  /\ \E task \in Due(sync.w) :
       LET w == Turn(db, sync.level, sync.exclude, sync.w, task)
       IN  sync' = [sync EXCEPT !.w = w, !.pc = w.pc,
                                !.result = Caught(w.result)]
  /\ UNCHANGED <<kv, db, root, walk, checkpoints>>
  /\ UNCHANGED addVars

\* The operation has come to its end.
Settled ==
  /\ sync # NoSync
  /\ sync.op = "lookup" => sync.lk.pc = "done"
  /\ sync.op = "compare" => sync.pc = "done"
  /\ sync.op = "descend" => sync.pc = "done"

\* The caller takes the result, or gives up on a call that never settles.
Return ==
  /\ Settled
  /\ sync' = NoSync
  /\ UNCHANGED <<kv, db, root, walk, checkpoints>>
  /\ UNCHANGED addVars

\* Idle: no operation is under way or waiting for its caller.
Idle == sync = NoSync

\* The entries put in the replica while it is compared: one of an embedded
\* leaf and one of a leaf stored under its digest.
SyncPuts ==
  {<<Buf(<<0>>), Buf(<<65>>)>>,
   <<Buf(<<1>>), Buf([i \in 1..HashLength |-> 66])>>}

NextSync ==
  \/ Return
  \/ \E e \in SyncPuts : Put(e[1], e[2])
  \/ PutBatch
  \/ Idle /\ \E d \in RemoteDescriptors, fault \in Faults : Lookup(d, fault)
  \/ LookupResumes
  \/ Idle /\ \E remotes \in PlainBatches :
               \E faults \in FaultSeqs(Len(remotes)) : Compare(remotes, faults)
  \/ Idle /\ \E b \in PlainBatches, d \in Extras(root) :
               \E i \in 1..(Len(b) + 1), f \in {"none", "lookupNode"} :
                 Compare(InsertAt(b, i, d),
                         [NoFaults(Len(b) + 1) EXCEPT ![i] = f])
  \/ CompareResumes

SpecSync == Init /\ [][NextSync]_vars

\* descend on a replica that is written to.
NextDescend ==
  \/ Return
  \/ \E key \in SyncKeys, value \in SyncValues : Put(key, value)
  \/ PutBatch
  \/ Idle /\ \E level \in Levels, exclude \in Excludes, fault \in BOOLEAN :
               Descend(level, exclude, fault)
  \/ DescendResumes

SpecDescend == Init /\ [][NextDescend]_vars

\* ------------------------------------------------------------- claims
InFlight(p) == call[p].pc # "idle"
KeyOf(p) == DedupKey(call[p].message)
Leaf(message) == [key |-> index(message), value |-> canonical(message)]

\* What each step of a call looks like from the state before and after it.
Called == nCalls' = nCalls + 1
PassesReturns(p) == call[p].pc = "putwait" /\ call'[p].pc # "putwait"
PutWrites(p) == call[p].put = "root" /\ call'[p].put = "written"
PutFails(p) == call[p].put \in {"called", "root"} /\ call'[p].put = "rejected"
PutResolves(p) == call[p].pc = "trieput" /\ call'[p].pc = "idle"
PutRejects(p) == call[p].pc = "trieput" /\ call'[p].pc = "remove"
RemoveResolves(p) == call[p].pc = "remove" /\ call'[p].pc = "idle"

ValidationErrors ==
  {"InvalidSignature", "NotAuthorized", "TimestampTooOld", "TimestampTooNew"}

\* The three ways a message is invalid, stated on the message itself.
BadSignature(m) == m.signer = NoAddress
Unauthorized(m) ==
  getAddress(m.signer) \notin Allowlist
  /\ ~(getAddress(m.signer) \in DOMAIN Delegations
       /\ \E a \in Allowlist :
            getAddress(Delegations[getAddress(m.signer)]) = a)
TooOld(m) == m.timestamp < MinTimestampSecs
TooNew(m, now) == m.timestamp * MsPerSec >= now + MaxTimestampDeltaSecs * MsPerSec

\* C1: after any interleaving of add calls, at most one add call per DedupKey
\* has returned normally with its message written to the trie.
C1_AtMostOneAdmissionPerKey == \A k \in Keys : okCount[k] <= 1

\* C2: passes is an atomic read-then-set: of the passes calls that run at the
\* same time on one key (each between its db.get and its db.put), at most one
\* has read the key as absent and so returns true.
C2_PassesAtomic ==
  \A p, q \in Procs :
    (p # q /\ call[p].pc = "dbput" /\ call[q].pc = "dbput" /\ KeyOf(p) = KeyOf(q))
      => ~(call[p].notFound /\ call[q].notFound)

\* C3: under sequential calls, passes(key) on a key that was never removed
\* returns true exactly when it is the first call with that key, whatever
\* other keys have been passed; add goes on to trie.put exactly when it
\* returned true and throws the duplicate error otherwise.
C3_PassesOncePerKey ==
  [][\A p \in Procs :
       /\ (~InFlight(p) /\ InFlight(p)'
             /\ DedupKey(call'[p].message) \notin removed) =>
            (call'[p].notFound <=> (DedupKey(call'[p].message) \notin seen))
       /\ (PassesReturns(p) /\ KeyOf(p) \notin removed) =>
            /\ call[p].notFound <=> (call'[p].pc = "trieput")
            /\ ~call[p].notFound <=> (InFlight(p) /\ ~InFlight(p)'
                                       /\ settled'.outcome = "Duplicate")
            /\ KeyOf(p) \in seen
            /\ KeyOf(p) \in metadb']_vars

\* passes has returned false on a key seen before, with a second key seen in
\* between and no key removed.
C3_Witness ==
  /\ settled.outcome = "Duplicate"
  /\ Cardinality(seen) = 2
  /\ removed = {}
  /\ nCalls = 3

\* C4: once a message has been admitted, every add call made later with the
\* same DedupKey is rejected as a duplicate before trie.put is reached: it
\* reads the key as present and never gets past the dedup step.
C4_LaterAddIsDuplicate ==
  \A p \in Procs :
    call[p].afterAdmit =>
      (~call[p].notFound /\ call[p].pc \in {"dbput", "putwait"})

\* C5: an add call of a message with an invalid signature, an unauthorized
\* signer or a timestamp out of bounds is thrown out at once with a
\* validation error, and leaves the trie, the constraints database (the
\* message's DedupKey included) and the published payloads as they were.
C5_RejectionTouchesNothing ==
  [][(/\ Called
      /\ \/ BadSignature(invoked'.message)
         \/ Unauthorized(invoked'.message)
         \/ TooOld(invoked'.message)
         \/ ~invoked'.synching /\ TooNew(invoked'.message, nowMs))
     => /\ invoked'.checks \in ValidationErrors
        /\ trie' = trie
        /\ TrieRoot(trie', moved') = TrieRoot(trie, moved)
        /\ metadb' = metadb
        /\ published' = published
        /\ call' = call]_vars

\* A too-old message of an authorized signer was thrown out while the
\* stores held other messages and its own DedupKey was free, and stayed free.
C5_Witness ==
  /\ invoked.checks = "TimestampTooOld"
  /\ trie # {}
  /\ metadb # {}
  /\ DedupKey(invoked.message) \in Keys
  /\ DedupKey(invoked.message) \notin metadb
  /\ \A p \in Procs : ~InFlight(p)

\* C6: add rejects every message whose timestamp is below minTimestampSecs,
\* with synching set or not, and the root is as before; the rejection is the
\* too-old one when the signature and the signer are good; a timestamp equal
\* to minTimestampSecs is never rejected as too old.
C6_MinTimestamp ==
  [][Called =>
       /\ TooOld(invoked'.message) =>
            /\ invoked'.checks \in ValidationErrors
            /\ TrieRoot(trie', moved') = TrieRoot(trie, moved)
            /\ call' = call
       /\ invoked'.checks = "TimestampTooOld" <=>
            /\ TooOld(invoked'.message)
            /\ ~BadSignature(invoked'.message)
            /\ ~Unauthorized(invoked'.message)
       /\ invoked'.message.timestamp = MinTimestampSecs =>
            invoked'.checks # "TimestampTooOld"]_vars

\* A too-old message was rejected in synching mode.
C6_Witness ==
  /\ invoked.checks = "TimestampTooOld"
  /\ invoked.synching
  /\ invoked.message.timestamp = MinTimestampSecs - 1

\* C7: for a message that passes the earlier checks, with synching false add
\* rejects it as too new exactly when timestamp >= now + toleranceSecs (the
\* boundary included); with synching true it is never rejected as too new.
C7_MaxTimestamp ==
  [][(/\ Called
      /\ ~BadSignature(invoked'.message)
      /\ ~Unauthorized(invoked'.message)
      /\ ~TooOld(invoked'.message))
     => /\ ~invoked'.synching =>
             /\ invoked'.checks = "TimestampTooNew" <=> TooNew(invoked'.message, nowMs)
             /\ invoked'.checks = "passes" <=> ~TooNew(invoked'.message, nowMs)
        /\ invoked'.synching => invoked'.checks = "passes"
        /\ invoked'.checks = "passes" <=>
             \E p \in Procs : ~InFlight(p) /\ InFlight(p)'
                              /\ call'[p].message = invoked'.message]_vars

\* The boundary timestamp now + toleranceSecs was rejected with synching false.
C7_Witness ==
  /\ invoked.checks = "TimestampTooNew"
  /\ ~invoked.synching
  /\ invoked.message.timestamp * MsPerSec = nowMs + MaxTimestampDeltaSecs * MsPerSec

\* C8: when trie.put fails, add calls the removal of its DedupKey and
\* throws when the removal has resolved, reporting whether it deleted the
\* key; when add reports the key as removed, the ledger does not hold the
\* key, the failed put has left the trie and its root as they were, nothing
\* was published, and the next add call of the key reads the key as absent
\* and is not rejected as a duplicate.  The put works on the trie while it
\* holds the lock, and no other put does: the root it leaves when it fails
\* is the root it found when it is the root of the trie's leaves.
C8_RollbackAfterPutFailure ==
  [][\A p \in Procs :
       /\ PutFails(p) =>
            /\ trie' = trie
            /\ published' = published
       /\ PutRejects(p) =>
            /\ metadb' \subseteq metadb
            /\ metadb \ metadb' \subseteq {KeyOf(p)}
            /\ published' = published
            /\ trie' = trie
            /\ call'[p].deleted => TrieRoot(trie', moved') = TrieRoot(trie', FALSE)
       /\ RemoveResolves(p) =>
            /\ settled'.outcome = "StorageWriteFailed"
            /\ settled'.rolledBack <=> call[p].deleted
            /\ published' = published
            /\ settled'.rolledBack => KeyOf(p) \notin metadb'
       /\ (~InFlight(p) /\ InFlight(p)' /\ call'[p].afterRollback) =>
            call'[p].notFound
       /\ (PassesReturns(p) /\ call[p].afterRollback) =>
            call'[p].pc = "trieput"]_vars

C10_PublishOnceAfterPut ==
  [][/\ \A p \in Procs :
          PutResolves(p) =>
            /\ Leaf(call[p].message) \in trie'
            /\ ~call[p].libp2p => settled'.outcome = "ok"
            /\ call[p].libp2p =>
                 published' = Append(published, canonical(call[p].message))
            /\ ~call[p].libp2p => published' = published
     /\ published' # published =>
          \E p \in Procs : PutResolves(p) /\ call[p].libp2p]_vars

\* Two messages are in the trie: one was published, the other was admitted
\* without a distributor.
C10_Witness ==
  /\ Cardinality(trie) = 2
  /\ Len(published) = 1
  /\ settled.outcome = "ok"
  /\ \E e \in trie : e.value = published[1]

\* C11: a distributor whose publish throws, rejects or never completes does
\* not make add fail: in the step in which trie.put has resolved, add returns
\* normally, whatever the publish call does.
C11_PublishNeverFailsAdd ==
  [][\A p \in Procs : PutResolves(p) => settled'.outcome = "ok"]_vars

\* --------------------------------------- leaves while the trie is written
MaxFrom == 1
MaxAmount == 2
Froms == {Undefined} \cup {Num(n) : n \in 0..MaxFrom}
Amounts == {Undefined} \cup {Num(n) : n \in 0..MaxAmount}

\* leaves is called: it takes the root of the moment and walkTrieDfs calls
\* for the node of that root.  started is the trie of that moment, kept for
\* the claims.
LeavesCall(from, amount) ==
  /\ walk.pc = "idle"
  /\ walk' = [call |-> Reads(db, StartLeaves(root, from, amount)),
              started |-> kv, pc |-> "walking"]
  /\ UNCHANGED <<kv, db, root, sync, checkpoints>>
  /\ UNCHANGED addVars

\* walkTrieDfs awaits trie.lookupNode and goes on.
WalkStep ==
  /\ walk.pc = "walking"
  /\ walk' = [walk EXCEPT !.call = WalkStepOf(db, walk.call),
                          !.pc = WalkStepOf(db, walk.call).pc]
  /\ UNCHANGED <<kv, db, root, sync, checkpoints>>
  /\ UNCHANGED addVars

\* leaves returns its list or throws.
LeavesReturn ==
  /\ walk.pc \in {"done", "failed"}
  /\ walk' = NoWalk
  /\ UNCHANGED <<kv, db, root, sync, checkpoints>>
  /\ UNCHANGED addVars

NextWalk ==
  \/ \E key \in SyncKeys, value \in SyncValues : Put(key, value)
  \/ PutBatch
  \/ \E from \in Froms, amount \in Amounts : LeavesCall(from, amount)
  \/ WalkStep
  \/ LeavesReturn

SpecWalk == Init /\ [][NextWalk]_vars

\* ------------------------------------------- leaves with its filters
\* leaves called with a parser, a minimum timestamp and an href on a trie
\* of messages, each stored by add under its index.
Message(signer, href, type, timestamp) ==
  [signer |-> signer, href |-> href, type |-> type, timestamp |-> timestamp]
LeafMsgs ==
  {Message("0xA1", "https://x.example", "submit", 1),
   Message("0xD1", "https://y.example", "submit", 1),
   Message("0xD1", "https://x.example/", "amplify", 2),
   Message("0xEE", "https://y.example", "submit", 2),
   Message("0xEE", "https://x.example", "amplify", 17)}
LeafEntry(m) ==
  [key |-> IndexPath(index(m)), value |-> CanonicalBuf(canonical(m))]
StartDatetimes == {Undefined, Num(2)}
HrefFilters == {Undefined, <<"https://x.example/">>, <<"https://y.example">>}

InitLeaves ==
  /\ InitStores
  /\ InitCalls
  /\ \E ms \in SUBSET LeafMsgs :
       /\ kv = {LeafEntry(m) : m \in ms}
       /\ db = StoredNodes(kv)
       /\ root = Root(kv)
  /\ sync = NoSync
  /\ walk = NoWalk

LeavesCallWith(from, amount, parser, startDatetime, href) ==
  /\ walk.pc = "idle"
  /\ walk' = [call |-> Reads(db, StartLeavesWith(root, from, amount, parser,
                                                 startDatetime, href)),
              started |-> kv, pc |-> "walking"]
  /\ UNCHANGED <<kv, db, root, sync, checkpoints>>
  /\ UNCHANGED addVars

NextLeaves ==
  \/ \E from \in Froms, amount \in Amounts :
        LeavesCallWith(from, amount, FALSE, Undefined, Undefined)
  \/ \E from \in Froms, amount \in Amounts :
        \E startDatetime \in StartDatetimes, href \in HrefFilters :
          LeavesCallWith(from, amount, TRUE, startDatetime, href)
  \/ WalkStep
  \/ LeavesReturn

SpecLeaves == InitLeaves /\ [][NextLeaves]_vars

\* ------------------------------------------------ claims on the sync
Range(seq) == {seq[i] : i \in 1..Len(seq)}
Count(seq, d) == Cardinality({i \in 1..Len(seq) : seq[i] = d})
\* Two sequences hold the same things as often, in whatever order.
SameBag(s1, s2) ==
  /\ Len(s1) = Len(s2)
  /\ \A x \in Range(s1) : Count(s1, x) = Count(s2, x)
\* compare, lookup, descend has come to its end.
Compared == sync.op = "compare" /\ sync.pc = "done"
LookedUp == sync.op = "lookup" /\ sync.lk.pc = "done"
Descended == sync.op = "descend" /\ sync.pc = "done"
\* The store of a replica holds a node under this hash.
Holds(r, h) == h # NoRef /\ h[1] = "keccak" /\ h[2] \in r.db
\* The store of a replica holds the nodes of its trie: no put is writing.
Written(r) == StoredNodes(r.kv) \subseteq r.db
\* compare came to the i-th descriptor of the batch and found it to have
\* level 0 and the root of that moment as its hash.
RootMatchAt(i) ==
  /\ i <= Len(sync.heads)
  /\ sync.remotes[i].level = 0
  /\ sync.remotes[i].hash = sync.heads[i].root
\* The place of the first such descriptor, and the length of the batch when
\* there is none.
Cut ==
  IF \E i \in 1..Len(sync.heads) : RootMatchAt(i)
  THEN CHOOSE i \in 1..Len(sync.heads) :
         RootMatchAt(i) /\ \A j \in 1..(i - 1) : ~RootMatchAt(j)
  ELSE Len(sync.remotes)
\* All nodes of the trie below a node, the node included.
RECURSIVE NodesOf(_)
NodesOf(node) ==
  LET refs == IF node.type = "extension" THEN {node.child}
              ELSE IF node.type = "branch"
              THEN {GetBranch(node, i) : i \in Nibbles} \ {NoRef}
              ELSE {}
  IN  {node} \cup UNION {NodesOf(r[2]) : r \in refs}
NodesOfTrie(kvs) == IF kvs = {} THEN {} ELSE NodesOf(Build(kvs))
LocalNodes == NodesOfTrie(kv)
\* The places of the batch that compare has put in one of its lists.
Listed ==
  Range(sync.result.match) \cup Range(sync.result.mismatch)
    \cup Range(sync.result.missing)

\* C14 as stated: the three lists compare returns are pairwise disjoint and
\* every descriptor of the batch is in exactly one of them.
C14_EveryDescriptorClassified ==
  (Compared /\ sync.result.err = "") =>
    /\ Range(sync.result.match) \cap Range(sync.result.mismatch) = {}
    /\ Range(sync.result.match) \cap Range(sync.result.missing) = {}
    /\ Range(sync.result.mismatch) \cap Range(sync.result.missing) = {}
    /\ Listed = 1..Len(sync.remotes)
    /\ Len(sync.result.match) + Len(sync.result.mismatch)
         + Len(sync.result.missing) = Len(sync.remotes)

\* C14, amended: the three lists are pairwise disjoint; every descriptor of
\* the batch up to and including the first one that compare finds to have
\* level 0 and the local root as its hash is in exactly one of them, and
\* the descriptors after that one are in none.
C14_ClassifiedUpToRootMatch ==
  (Compared /\ sync.result.err = "") =>
    /\ Range(sync.result.match) \cap Range(sync.result.mismatch) = {}
    /\ Range(sync.result.match) \cap Range(sync.result.missing) = {}
    /\ Range(sync.result.mismatch) \cap Range(sync.result.missing) = {}
    /\ Listed = 1..Cut
    /\ Len(sync.result.match) + Len(sync.result.mismatch)
         + Len(sync.result.missing) = Cut

\* A batch of three: the first descriptor was classified by lookup, the
\* second matched the root, the third is in no list.
C14_Witness ==
  /\ Compared
  /\ sync.result.err = ""
  /\ Len(sync.remotes) = 3
  /\ Cut = 2
  /\ RootMatchAt(2)
  /\ Listed = {1, 2}
  /\ 2 \in Range(sync.result.match)

\* What lookup is to say of the i-th descriptor of the batch: missing of a
\* node's encoding, match of a hash the store held when compare came to the
\* descriptor, and else mismatch or missing by what the trie had on the
\* path to the key when findPath was called.
ClassAt(i) ==
  LET d == sync.remotes[i]
  IN  IF Decodes(d.hash) THEN "missing"
      ELSE IF Holds(sync.heads[i], d.hash) THEN "match"
      ELSE IF findPath(sync.paths[i].db, sync.paths[i].root, d.key) # NullNode
      THEN "mismatch"
      ELSE "missing"
\* The places up to the n-th that are of one class, in their order.
RECURSIVE ClassifiedUpTo(_, _)
ClassifiedUpTo(n, class) ==
  IF n = 0 THEN <<>>
  ELSE ClassifiedUpTo(n - 1, class)
       \o (IF ClassAt(n) = class THEN <<n>> ELSE <<>>)

\* C15: when compare comes to a descriptor of the batch that has level 0
\* and the local root as its hash, it puts it in match without a lookup (a
\* store that fails at that lookup fails nothing), classifies no descriptor
\* after it, and the descriptors before it are in the lists lookup put them
\* in.
C15_RootShortcut ==
  (/\ Compared
   /\ \E i \in 1..Len(sync.heads) : RootMatchAt(i)
   /\ \A j \in 1..(Cut - 1) : sync.faults[j] = "none")
  => /\ sync.result.err = ""
     /\ Len(sync.heads) = Cut
     /\ sync.result.match = Append(ClassifiedUpTo(Cut - 1, "match"), Cut)
     /\ sync.result.mismatch = ClassifiedUpTo(Cut - 1, "mismatch")
     /\ sync.result.missing = ClassifiedUpTo(Cut - 1, "missing")

\* The root matched at the second of three descriptors while the store
\* failed at the lookup of that descriptor; the first one is a mismatch or
\* missing.
C15_Witness ==
  /\ Compared
  /\ Len(sync.remotes) = 3
  /\ Cut = 2
  /\ RootMatchAt(2)
  /\ sync.faults[2] = "lookupNode"
  /\ sync.result.err = ""
  /\ sync.result.match = <<2>>
  /\ Len(sync.result.mismatch) + Len(sync.result.missing) = 1

\* The entry of a trie whose key the buffer is, if any.
EntriesAt(kvs, key) == {e \in kvs : e.key = BufferToNibbles(key)}

\* C16 as stated: for a hash that is not a node's encoding and a store that
\* does not fail, lookup returns match with the stored node exactly when
\* the store holds a node under the hash (a node of an older trie included)
\* when lookup reads it, and otherwise mismatch with the node the local trie
\* holds on the path to the key when lookup asks for it: a node of that
\* trie, the leaf of the entry when the key is an entry's key, and none
\* when the trie is empty.
C16_LookupMatchOrMismatch ==
  (LookedUp /\ ~Decodes(sync.hash) /\ sync.fault = "none") =>
    /\ sync.lk.result.err = ""
    /\ sync.lk.result.type \in {"match", "mismatch"}
    /\ sync.lk.result.type = "match" <=> Holds(sync.head, sync.hash)
    /\ sync.lk.result.type = "match" =>
         /\ sync.lk.result.node \in sync.head.db
         /\ Keccak(sync.lk.result.node) = sync.hash
    /\ sync.lk.result.type = "mismatch" =>
         /\ sync.lk.result.node \in NodesOfTrie(sync.path.kv) \cup {NullNode}
         /\ \A e \in EntriesAt(sync.path.kv, sync.key) :
              /\ sync.lk.result.node.type = "leaf"
              /\ sync.lk.result.node.value = e.value
         /\ sync.path.kv = {} => sync.lk.result.node = NullNode

\* C17: lookup says missing of every hash that is the encoding of a node
\* shorter than 32 bytes, whether the store fails or not and whether or not
\* the local trie holds that very node at the key; compare puts no descriptor
\* with such a hash in match or mismatch.
C17_InlineHashIsMissing ==
  /\ (LookedUp /\ Decodes(sync.hash)
        /\ EncodedLength(sync.hash[2]) < HashLength) =>
       /\ sync.lk.result.type = "missing"
       /\ sync.lk.result.err = ""
  /\ (Compared /\ sync.result.err = "") =>
       \A i \in Range(sync.result.match) \cup Range(sync.result.mismatch) :
         Decodes(sync.remotes[i].hash) =>
           (RootMatchAt(i) /\ i \in Range(sync.result.match))

\* The encoding of a leaf was looked up at the key where the local trie
\* holds that leaf, with a store that fails: the answer is missing.
C17_Witness ==
  /\ LookedUp
  /\ Decodes(sync.hash)
  /\ sync.fault = "lookupNode"
  /\ sync.lk.result.type = "missing"
  /\ Written(sync.head)
  /\ findPath(sync.head.db, sync.head.root, sync.key) = sync.hash[2]
  /\ sync.hash[2] \in NodesOfTrie(sync.head.kv)

\* The lookup of the i-th descriptor of the batch reads the store at the
\* place where the store fails.
FaultHits(i) ==
  /\ ~RootMatchAt(i)
  /\ ~Decodes(sync.remotes[i].hash)
  /\ \/ sync.faults[i] = "lookupNode"
     \/ sync.faults[i] = "findPath" /\ ~Holds(sync.heads[i], sync.remotes[i].hash)

\* C18: compare puts in missing, and raises nothing for, a descriptor it
\* classifies whose hash the store does not hold and at whose key the local
\* trie has no node; lookup and compare raise an error exactly when a read
\* of the store fails with an error other than the missing node, and that
\* error is the one raised.
C18_AbsentIsMissing ==
  /\ (Compared /\ sync.result.err = "") =>
       \A i \in 1..Cut :
         (/\ ~RootMatchAt(i)
          /\ ~Decodes(sync.remotes[i].hash)
          /\ ~Holds(sync.heads[i], sync.remotes[i].hash)
          /\ findPath(sync.paths[i].db, sync.paths[i].root,
                      sync.remotes[i].key) = NullNode)
         => /\ i \in Range(sync.result.missing)
            /\ i \notin Range(sync.result.match)
            /\ i \notin Range(sync.result.mismatch)
  /\ Compared =>
       /\ sync.result.err \in {"", DbFault}
       /\ sync.result.err = DbFault <=>
            \E i \in 1..Len(sync.heads) : FaultHits(i)
  /\ LookedUp =>
       /\ sync.lk.result.err \in {"", DbFault}
       /\ sync.lk.result.err = DbFault <=>
            /\ ~Decodes(sync.hash)
            /\ \/ sync.fault = "lookupNode"
               \/ sync.fault = "findPath" /\ ~Holds(sync.head, sync.hash)

\* A batch of two descriptors with digests the store does not hold, at keys
\* where the trie of two entries or more has no node: both are in missing.
C18_Witness ==
  /\ Compared
  /\ sync.result.err = ""
  /\ Len(sync.remotes) = 2
  /\ sync.result.missing = <<1, 2>>
  /\ \A i \in 1..2 :
       /\ sync.remotes[i].hash[1] = "keccak"
       /\ ~Holds(sync.heads[i], sync.remotes[i].hash)
       /\ Cardinality(sync.paths[i].kv) >= 2
       /\ Written(sync.paths[i])
       /\ findPath(sync.paths[i].db, sync.paths[i].root,
                   sync.remotes[i].key) = NullNode

\* The nodes a given number of hops below a node, in the order of their
\* paths: the child of an extension and the children of a branch are one
\* hop below it.
RECURSIVE NodesBelow(_, _)
RECURSIVE ChildrenBelow(_, _, _)
NodesBelow(node, hops) ==
  IF hops = 0 THEN <<node>>
  ELSE IF node.type = "extension" THEN NodesBelow(node.child[2], hops - 1)
  ELSE IF node.type = "branch" THEN ChildrenBelow(node, 0, hops - 1)
  ELSE <<>>
ChildrenBelow(node, i, hops) ==
  IF i \notin Nibbles THEN <<>>
  ELSE (IF GetBranch(node, i) = NoRef THEN <<>>
        ELSE NodesBelow(GetBranch(node, i)[2], hops))
       \o ChildrenBelow(node, i + 1, hops)

NodesOfDescriptors(ds) == [i \in 1..Len(ds) |-> ds[i].node]

\* C19 as stated: descend(trie, 0, []) returns exactly one descriptor, of
\* level 0, with the empty key and the trie's root hash (trie.root()): on an
\* empty trie the sentinel with the empty-root hash, and nothing is raised.
C19_LevelZeroIsRoot ==
  (Descended /\ sync.level = 0 /\ sync.exclude = {} /\ ~sync.fault) =>
    /\ sync.result.err = ""
    /\ Len(sync.result.nodes) = 1
    /\ sync.result.nodes[1].level = 0
    /\ sync.result.nodes[1].key = EmptyBuf
    /\ sync.result.nodes[1].hash = sync.head.root
    /\ sync.head.kv = {} => sync.result.nodes[1].hash = EMPTY_TRIE_ROOT

\* C20 as stated: descend returns one descriptor for each node that is
\* level hops below the root and whose hash is not in exclude, each with the
\* level asked for, and none for any other node, in whatever order.
C20_NodesAtLevelNotExcluded ==
  (Descended /\ ~sync.fault /\ sync.head.kv # {}) =>
    /\ sync.result.err = ""
    /\ SameBag(NodesOfDescriptors(sync.result.nodes),
               SelectSeq(NodesBelow(Build(sync.head.kv), sync.level),
                         LAMBDA node : hash(node) \notin sync.exclude))
    /\ \A d \in Range(sync.result.nodes) : d.level = sync.level

\* ------------------------------------------------ claims on the walk
\* The messages of a trie's leaves in the order of their keys.
LexLess(a, b) ==
  \E i \in 1..Len(a) : a[i] < b[i] /\ \A j \in 1..(i - 1) : a[j] = b[j]
RECURSIVE SortedLeaves(_)
SortedLeaves(kvs) ==
  IF kvs = {} THEN <<>>
  ELSE LET e == CHOOSE e \in kvs : \A f \in kvs \ {e} : LexLess(e.key, f.key)
       IN  <<Decode(e.value)>> \o SortedLeaves(kvs \ {e})
\* The part of them a call with from and amount is to return.
Slice(all, from, amount) ==
  LET skip == IF IsInteger(from) THEN from[1] ELSE 0
      rest == SubSeq(all, skip + 1, Len(all))
  IN  IF IsInteger(amount) /\ amount[1] < Len(rest)
      THEN SubSeq(rest, 1, amount[1]) ELSE rest

\* C13 as stated: a leaves call that took the root R, with trie.put calls
\* made while it walks, never fails on a missing node, each node it is
\* about to read is embedded or in the store, and it returns the leaves
\* of the trie of root R (the part from and amount ask for), whatever is
\* put in the meantime.
C13_WalkOnSnapshot ==
  /\ walk.pc # "failed"
  /\ walk.pc = "walking" =>
       /\ walk.call.root = Root(walk.started)
       /\ \A i \in 1..Len(walk.call.stack) :
            \/ walk.call.stack[i][1] = EMPTY_TRIE_ROOT
            \/ lookupNode(db, walk.call.stack[i][1]).err = ""
  /\ walk.pc = "done" =>
       walk.call.nodes =
         Slice(SortedLeaves(walk.started), walk.call.from, walk.call.amount)

\* The walk of all leaves of the trie the add calls have written, from its
\* current root: the root of the leaves written or, after a put that was
\* rejected by the write, a digest of nodes the store does not hold.
WalkOfTrie ==
  RunLeaves(StoredNodes(Entries(trie)),
            StartLeaves(IF moved THEN Keccak(NullNode) ELSE Root(Entries(trie)),
                        Undefined, Undefined))

\* C12 as stated: after any sequence of add calls from the empty trie, the
\* walk from the current root yields the messages whose add call returned
\* normally, each once, and no other (so a message admitted stays and a
\* rejected one never shows), and the root is not the empty root once an add
\* call has returned normally.  The states are those after the calls, with
\* no add call in progress.
C12_WalkYieldsAdmitted ==
  Quiet =>
    /\ WalkOfTrie.pc = "done"
    /\ Range(WalkOfTrie.nodes) = {Decode(CanonicalBuf(c)) : c \in succeeded}
    /\ Len(WalkOfTrie.nodes) = Cardinality(succeeded)
    /\ succeeded # {} => Root(Entries(trie)) # EMPTY_TRIE_ROOT

\* ------------------------------------------------ claims on descend's keys
\* A sequence of nibbles ends with another.
IsSuffix(suffix, nibbles) ==
  /\ Len(suffix) <= Len(nibbles)
  /\ SubSeq(nibbles, Len(nibbles) - Len(suffix) + 1, Len(nibbles)) = suffix

\* C21 as stated: the key of every leaf descriptor that descend returns at a
\* level above 0 is the full key of the leaf in the trie, the bytes of the
\* path followed by the leaf's own key, whether the path has an odd or an
\* even number of nibbles; at level 0 the key is the path alone, which is
\* empty.
C21_LeafKeyIsFullKey ==
  (Descended /\ ~sync.fault) =>
    \A d \in Range(sync.result.nodes) :
      d.node.type = "leaf" =>
        IF sync.level > 0
        THEN \E e \in sync.head.kv :
               /\ e.key = BufferToNibbles(d.key)
               /\ e.value = d.node.value
               /\ IsSuffix(d.node.key, e.key)
        ELSE d.key = EmptyBuf

\* ------------------------------------- the functions on a given store
\* hash, isEqual, compare and descend applied to a replica as it is found:
\* a trie of some entries over a backing store that holds all of its nodes
\* or lacks some of them.
InitParts ==
  /\ InitStores
  /\ InitCalls
  /\ \E t \in Tries : \E nodes \in SUBSET StoredNodes(t) :
       /\ kv = t
       /\ db = nodes
       /\ root = Root(t)
  /\ sync = NoSync
  /\ walk = NoWalk

\* What hash is called with: a node of the trie, null, or a buffer.
HashInputs == LocalNodes \cup {NullNode, EmptyBuf}
\* What isEqual is called with: nothing, a digest, a short node's encoding,
\* other bytes, or the array that stands for an embedded node.
RefInputs ==
  {NoRef, EMPTY_TRIE_ROOT, root, Garbage}
    \cup {hash(node) : node \in LocalNodes}
    \cup {RawRef(node) : node \in LocalNodes}
\* A descriptor whose hash is an array.
ArrayDescriptors == {Descriptor(0, EmptyBuf, RawRef(node), node) : node \in LocalNodes}
MarkedInputs ==
  {{}} \cup {{hash(node)} : node \in LocalNodes}
       \cup {{RawRef(node)} : node \in LocalNodes}

Hash(node) ==
  /\ sync = NoSync
  /\ sync' = [op |-> "hash", node |-> node, result |-> hash(node)]
  /\ UNCHANGED <<kv, db, root, walk, checkpoints>>
  /\ UNCHANGED addVars

IsEqual(buf1, buf2) ==
  /\ sync = NoSync
  /\ sync' = [op |-> "isEqual", buf1 |-> buf1, buf2 |-> buf2,
              result |-> isEqual(buf1, buf2)]
  /\ UNCHANGED <<kv, db, root, walk, checkpoints>>
  /\ UNCHANGED addVars

NextParts ==
  \/ Return
  \/ Idle /\ \E node \in HashInputs : Hash(node)
  \/ Idle /\ \E buf1 \in RefInputs, buf2 \in RefInputs : IsEqual(buf1, buf2)
  \/ Idle /\ \E level \in Levels, d \in ArrayDescriptors :
               \E b \in RemoteDescend(kv, level) :
                 \E i \in 1..(Len(b) + 1) :
                   Compare(InsertAt(b, i, d), NoFaults(Len(b) + 1))
  \/ CompareResumes
  \/ Idle /\ \E level \in Levels, exclude \in MarkedInputs, fault \in BOOLEAN :
               Descend(level, exclude, fault)
  \/ DescendResumes

SpecParts == InitParts /\ [][NextParts]_vars

\* --------------------------------------------- claims on hash and isEqual
\* C22: hash of a branch, an extension or a leaf is the node's encoding when
\* the encoding is shorter than 32 bytes and else a digest of exactly 32
\* bytes; nodes of one encoding have one hash; hash of anything else raises
\* an error.
C22_HashOfNode ==
  sync.op = "hash" =>
    IF IsTrieNode(sync.node)
    THEN /\ EncodedLength(sync.node) < 32 =>
              /\ sync.result = Serialized(sync.node)
              /\ ByteLength(sync.result) = EncodedLength(sync.node)
         /\ EncodedLength(sync.node) >= 32 =>
              /\ sync.result = Keccak(sync.node)
              /\ ByteLength(sync.result) = 32
         /\ \A node \in LocalNodes :
              Serialized(node) = Serialized(sync.node) =>
                hash(node) = sync.result
    ELSE sync.result = HashThrows

\* hash was taken of a leaf whose encoding is shorter than 32 bytes and
\* gave the encoding.
C22_Witness ==
  /\ sync.op = "hash"
  /\ IsTrieNode(sync.node)
  /\ sync.node.type = "leaf"
  /\ EncodedLength(sync.node) < 32
  /\ sync.result[1] = "rlp"

\* C23: isEqual raises an error when either argument is an array, gives
\* true exactly when both are buffers of the same bytes and false in every
\* other case; so compare classifies no level-0 descriptor whose hash is an
\* array and raises when it comes to one, and descend with an array among
\* the marked nodes returns no node of the trie.
C23_IsEqualBuffersOnly ==
  /\ sync.op = "isEqual" =>
       IF IsArray(sync.buf1) \/ IsArray(sync.buf2)
       THEN sync.result = "throws"
       ELSE /\ sync.result \in {"true", "false"}
            /\ sync.result = "true" <=>
                 /\ IsBuffer(sync.buf1)
                 /\ IsBuffer(sync.buf2)
                 /\ sync.buf1 = sync.buf2
  /\ Compared =>
       /\ \A i \in Listed :
            ~(sync.remotes[i].level = 0 /\ IsArray(sync.remotes[i].hash))
       /\ (\E i \in 1..Len(sync.remotes) :
             /\ sync.remotes[i].level = 0
             /\ IsArray(sync.remotes[i].hash)
             /\ \A j \in 1..(i - 1) : ~RootMatchAt(j)
             /\ \A j \in 1..i : sync.faults[j] = "none")
            => sync.result.err = OnlyBuffers
  /\ (Descended /\ ~sync.fault /\ \E m \in sync.exclude : IsArray(m)) =>
       IF sync.level = 0 /\ kv = {}
       THEN sync.result.err = ""
       ELSE sync.result.nodes = <<>>

\* isEqual was called with the array of an embedded node and the encoding
\* of the same node, and raised.
C23_Witness ==
  /\ sync.op = "isEqual"
  /\ IsArray(sync.buf1)
  /\ sync.buf2 = Serialized(sync.buf1[2])
  /\ sync.buf2 = hash(sync.buf1[2])
  /\ sync.result = "throws"

\* ------------------------------------------ claims on leaves' filters
\* The entries of a trie in the order of their keys.
RECURSIVE SortedEntries(_)
SortedEntries(kvs) ==
  IF kvs = {} THEN <<>>
  ELSE LET e == CHOOSE e \in kvs : \A f \in kvs \ {e} : LexLess(e.key, f.key)
       IN  <<e>> \o SortedEntries(kvs \ {e})
\* The message of an entry passes the filters of a call.
Matches(e, c) ==
  c.parser =>
    /\ IsInteger(c.startDatetime) =>
         Parse(Decode(e.value)).timestamp >= c.startDatetime[1]
    /\ c.href # Undefined =>
         normalizeUrl(Parse(Decode(e.value)).href) = normalizeUrl(c.href[1])
\* What a call returns for an entry.
Returned(e, c) ==
  IF c.parser THEN Parse(Decode(e.value)) ELSE Decode(e.value)
Skip(c) == IF IsInteger(c.from) THEN c.from[1] ELSE 0
Drop(seq, n) == SubSeq(seq, n + 1, Len(seq))
LeavesDone == walk.pc = "done"

\* C24: leaves called with an integer amount k returns k items at most,
\* whatever the trie, from and the filters are (none when k is 0), and k
\* items exactly when k or more of the leaves that come after the skipped
\* ones pass the filters.
C24_AmountCaps ==
  (LeavesDone /\ IsInteger(walk.call.amount)) =>
    /\ Len(walk.call.nodes) <= walk.call.amount[1]
    /\ Len(SelectSeq(Drop(SortedEntries(walk.started), Skip(walk.call)),
                     LAMBDA e : Matches(e, walk.call)))
         >= walk.call.amount[1]
        => Len(walk.call.nodes) = walk.call.amount[1]

\* leaves with amount 1 and an href filter on a trie with two matching
\* leaves and one that does not match has returned one item.
C24_Witness ==
  /\ LeavesDone
  /\ walk.call.amount = Num(1)
  /\ walk.call.parser
  /\ walk.call.href # Undefined
  /\ Len(walk.call.nodes) = 1
  /\ Cardinality({e \in walk.started : Matches(e, walk.call)}) = 2
  /\ \E e \in walk.started : ~Matches(e, walk.call)

\* C25 as stated: leaves called with from = n skips the first n leaves that
\* pass the minimum-timestamp and href filters, in the order of the walk,
\* and returns the matches that follow; a leaf that does not pass the
\* filters does not count towards n.
C25_FromSkipsMatches ==
  LeavesDone =>
    walk.call.nodes =
      Slice([i \in 1..Len(SelectSeq(SortedEntries(walk.started),
                                    LAMBDA e : Matches(e, walk.call))) |->
               Returned(SelectSeq(SortedEntries(walk.started),
                                  LAMBDA e : Matches(e, walk.call))[i],
                        walk.call)],
            walk.call.from, walk.call.amount)

\* C26: walkTrieDfs from a root yields every leaf reachable from the root
\* once, in the ascending order of the key paths, each with the path that
\* leads to it, and nothing for the root of the empty trie; a second walk
\* from the same root over the same store yields the same.
C26_DfsInKeyOrder ==
  (LeavesDone /\ ~IsInteger(walk.call.amount)) =>
    /\ Len(walk.call.keys) = Cardinality(walk.started)
    /\ \A i \in 1..Len(walk.call.keys) :
         LET e == SortedEntries(walk.started)[i]
         IN  /\ Len(walk.call.keys[i]) <= Len(e.key)
             /\ SubSeq(e.key, 1, Len(walk.call.keys[i])) = walk.call.keys[i]
    /\ \A i, j \in 1..Len(walk.call.keys) :
         i < j => walk.call.keys[i] # walk.call.keys[j]
    /\ (~IsInteger(walk.call.from) /\ ~walk.call.parser) =>
         walk.call.nodes = SortedLeaves(walk.started)
    /\ walk.call.root = EMPTY_TRIE_ROOT => walk.call.keys = <<>>
    /\ RunLeaves(db, StartLeavesWith(walk.call.root, walk.call.from,
                                     walk.call.amount, walk.call.parser,
                                     walk.call.startDatetime, walk.call.href))
         = walk.call

\* A walk of a trie of four leaves under branches at two depths has ended.
C26_Witness ==
  /\ LeavesDone
  /\ ~IsInteger(walk.call.amount)
  /\ Len(walk.call.keys) = 4
  /\ \E i \in 1..4 : Len(walk.call.keys[i]) = 1
  /\ \E i \in 1..4 : Len(walk.call.keys[i]) > 2

\* ------------------------------------------------ counting the stories
\* count(leaves) of the front page, part_001 lines 38-67.  A leaf is a
\* message with the identity it was resolved to.
LeafOf(identity, href, type, timestamp, title) ==
  [identity |-> identity, href |-> href, type |-> type,
   timestamp |-> timestamp, title |-> title]
CountMsgs ==
  {LeafOf("0xA1", "https://x.example", "submit", 1, "T"),
   LeafOf("0xA1", "https://x.example", "amplify", 1, ""),
   LeafOf("0xEE", "https://x.example/", "amplify", 2, "U"),
   LeafOf("0xEE", "https://x.example", "submit", 2, "T"),
   LeafOf("0xEE", "https://y.example", "submit", 3, "")}
\* The lists of messages that add can have admitted, in any order: no two
\* of one DedupKey.
CountInputs ==
  UNION {{f \in [1..Cardinality(ms) -> ms] :
            \A i, j \in 1..Cardinality(ms) : f[i] = f[j] => i = j} :
         ms \in SUBSET CountMsgs}

\* leaves.sort((a, b) => a.timestamp - b.timestamp), line 41: messages of
\* one timestamp keep their order.
RECURSIVE SortByTimestamp(_)
InsertByTimestamp(sorted, leaf) ==
  LET n == Cardinality({i \in 1..Len(sorted) :
                          sorted[i].timestamp <= leaf.timestamp})
  IN  SubSeq(sorted, 1, n) \o <<leaf>> \o SubSeq(sorted, n + 1, Len(sorted))
SortByTimestamp(leaves) ==
  IF leaves = <<>> THEN <<>>
  ELSE InsertByTimestamp(SortByTimestamp(SubSeq(leaves, 1, Len(leaves) - 1)),
                         leaves[Len(leaves)])

\* The story made of the first message of an href, lines 47-58.
NewStory(leaf) ==
  [title |-> leaf.title, timestamp |-> leaf.timestamp, href |-> leaf.href,
   identity |-> leaf.identity, upvotes |-> 1, upvoters |-> <<leaf.identity>>]
\* A later message of the href, lines 59-65: an amplify is counted.
Upvoted(story, leaf) ==
  IF leaf.type = "amplify"
  THEN [story EXCEPT !.upvotes = @ + 1,
                     !.upvoters = Append(@, leaf.identity),
                     !.title = IF @ = "" /\ leaf.title # "" THEN leaf.title
                               ELSE @]
  ELSE story
\* The loop of lines 42-66 from the i-th message on; stories are kept in
\* the order in which their hrefs came up.
RECURSIVE CountFrom(_, _, _)
CountFrom(leaves, i, stories) ==
  IF i > Len(leaves) THEN stories
  ELSE LET leaf == leaves[i]
           at == {k \in 1..Len(stories) :
                    normalizeUrl(stories[k].href) = normalizeUrl(leaf.href)}
       IN  IF at = {}
           THEN CountFrom(leaves, i + 1, Append(stories, NewStory(leaf)))
           ELSE CountFrom(leaves, i + 1,
                          [stories EXCEPT ![CHOOSE k \in at : TRUE] =
                             Upvoted(@, leaf)])
count(leaves) == CountFrom(SortByTimestamp(leaves), 1, <<>>)

CountCall(leaves) ==
  /\ sync = NoSync
  /\ sync' = [op |-> "count", leaves |-> leaves, result |-> count(leaves)]
  /\ UNCHANGED <<kv, db, root, walk, checkpoints>>
  /\ UNCHANGED addVars

NextCount ==
  \/ Return
  \/ Idle /\ \E leaves \in CountInputs : CountCall(leaves)

SpecCount == Init /\ [][NextCount]_vars

\* The messages of a list that share the normalized href of a story.
OfStory(leaves, story) ==
  {i \in 1..Len(leaves) :
     normalizeUrl(leaves[i].href) = normalizeUrl(story.href)}

\* C27 as stated: count of a list of admitted messages, in any order, gives
\* one story for each normalized href of the list; the story's timestamp is
\* the earliest of the messages of that href, its upvotes are as many as
\* those messages, and its contributors are their identities.
C27_OneStoryPerHref ==
  sync.op = "count" =>
    /\ {normalizeUrl(story.href) : story \in Range(sync.result)}
         = {normalizeUrl(leaf.href) : leaf \in Range(sync.leaves)}
    /\ \A i, j \in 1..Len(sync.result) :
         normalizeUrl(sync.result[i].href) = normalizeUrl(sync.result[j].href)
           => i = j
    /\ \A story \in Range(sync.result) :
         /\ \A i \in OfStory(sync.leaves, story) :
              story.timestamp <= sync.leaves[i].timestamp
         /\ \E i \in OfStory(sync.leaves, story) :
              story.timestamp = sync.leaves[i].timestamp
         /\ story.upvotes = Cardinality(OfStory(sync.leaves, story))
         /\ Range(story.upvoters)
              = {sync.leaves[i].identity : i \in OfStory(sync.leaves, story)}

\* ------------------------------------------------ claims on the DedupKey
\* The message a leaf of the trie holds, and the identity a message is
\* counted for.
MessageOf(e) ==
  [signer |-> e.value[4], href |-> e.value[1], type |-> e.value[2],
   timestamp |-> e.value[3]]
IdentityOf(m) == getAddress(eligible(Allowlist, Delegations, verify(m)))
SameVote(m1, m2) ==
  /\ IdentityOf(m1) = IdentityOf(m2)
  /\ normalizeUrl(m1.href) = normalizeUrl(m2.href)
  /\ m1.type = m2.type

\* C28: the DedupKey is made of the identity the signer resolves to, the
\* normalized href and the type.  An add call of a valid message is
\* rejected as Duplicate when the trie holds a message of the same identity,
\* normalized href and type, whatever address signed either and whatever
\* their timestamps are; when the trie holds none, be it one of another
\* identity or another type on the same href, the call goes on to trie.put
\* and the message is admitted beside the others.
C28_DedupKeyOfIdentity ==
  [][\A p \in Procs :
       /\ PassesReturns(p) =>
            IF \E e \in trie : SameVote(MessageOf(e), call[p].message)
            THEN /\ settled'.outcome = "Duplicate"
                 /\ call'[p].pc = "idle"
                 /\ trie' = trie
            ELSE call'[p].pc = "trieput"
       /\ PutWrites(p) =>
            /\ trie \subseteq trie'
            /\ Leaf(call[p].message) \in trie'
            /\ \A e \in trie : ~SameVote(MessageOf(e), call[p].message)
       /\ (PutResolves(p) /\ settled'.outcome = "ok") =>
            /\ trie' = trie
            /\ Leaf(call[p].message) \in trie']_vars

\* The trie holds a message signed by the identity itself; an add call of a
\* message signed by its delegate, with another timestamp and an href that
\* differs by the trailing slash, has been rejected as Duplicate.
C28_Witness ==
  /\ settled.outcome = "Duplicate"
  /\ invoked.message.signer = "0xD1"
  /\ invoked.message.href = "https://x.example/"
  /\ \E e \in trie :
       /\ MessageOf(e).signer = "0xA1"
       /\ MessageOf(e).type = invoked.message.type
       /\ MessageOf(e).href = "https://x.example"
       /\ MessageOf(e).timestamp # invoked.message.timestamp
  /\ \A e \in trie :
       MessageOf(e).type = invoked.message.type => MessageOf(e).signer = "0xA1"

\* ------------------------------------------------ claims on soft writes
\* The messages whose add call returned normally and that the trie no
\* longer holds.
Lost == {c \in succeeded : \A e \in trie : e.value # c}
Reverted == Len(checkpoints') < Len(checkpoints) /\ trie' # trie

\* C29: passes writes the DedupKey to the constraints database directly and
\* no checkpoint of the trie covers it: a revert takes the trie back to
\* what the checkpoint kept and leaves the constraints database as it is,
\* the key of every message admitted under the checkpoint stays, and an add
\* call of such a message is rejected as Duplicate though the trie does not
\* hold it.
C29_DedupOutlivesRevert ==
  [][/\ Reverted =>
          /\ trie' = checkpoints[Len(checkpoints)].trie
          /\ TrieRoot(trie', moved')
               = TrieRoot(checkpoints[Len(checkpoints)].trie,
                          checkpoints[Len(checkpoints)].moved)
          /\ metadb' = metadb
     /\ \A c \in Lost' : \E m \in FewMsgs : canonical(m) = c /\ DedupKey(m) \in metadb'
     /\ \A p \in Procs :
          (PassesReturns(p) /\ canonical(call[p].message) \in Lost) =>
            /\ settled'.outcome = "Duplicate"
            /\ trie' = trie]_vars

\* A message was admitted under a checkpoint, the checkpoint was reverted,
\* and the add call made with the message again has been rejected as
\* Duplicate: the trie is empty.
C29_Witness ==
  /\ checkpoints = <<>>
  /\ trie = {}
  /\ settled.outcome = "Duplicate"
  /\ canonical(invoked.message) \in Lost
  /\ nCalls = 2

\* ------------------------------------- claims on descend's missing nodes
\* The nodes descend's walk reads, in the order in which it reads them, on
\* a store that holds them all: a node, then what is below it unless it is
\* marked or at the depth asked for.  stored tells the nodes that are read
\* from the backing store from those embedded in their parent.
RECURSIVE Visits(_, _, _, _)
RECURSIVE VisitsOfChildren(_, _, _, _)
Visits(node, stored, hops, exclude) ==
  <<[node |-> node, stored |-> stored, hops |-> hops]>>
    \o (IF hash(node) \in exclude \/ hops = 0 THEN <<>>
        ELSE IF node.type = "extension"
        THEN Visits(node.child[2], node.child[1] = "keccak", hops - 1, exclude)
        ELSE IF node.type = "branch"
        THEN VisitsOfChildren(node, 0, hops - 1, exclude)
        ELSE <<>>)
VisitsOfChildren(node, i, hops, exclude) ==
  IF i \notin Nibbles THEN <<>>
  ELSE (IF GetBranch(node, i) = NoRef THEN <<>>
        ELSE Visits(GetBranch(node, i)[2], GetBranch(node, i)[1] = "keccak",
                    hops, exclude))
       \o VisitsOfChildren(node, i + 1, hops, exclude)
\* The visits among them that the store answers: a node that the store
\* lacks is not found, and nothing below it is read.
RECURSIVE Answered(_, _, _, _)
RECURSIVE AnsweredOfChildren(_, _, _, _)
Answered(node, stored, hops, exclude) ==
  IF stored /\ node \notin db THEN <<>>
  ELSE <<[node |-> node, stored |-> stored, hops |-> hops]>>
         \o (IF hash(node) \in exclude \/ hops = 0 THEN <<>>
             ELSE IF node.type = "extension"
             THEN Answered(node.child[2], node.child[1] = "keccak", hops - 1,
                           exclude)
             ELSE IF node.type = "branch"
             THEN AnsweredOfChildren(node, 0, hops - 1, exclude)
             ELSE <<>>)
AnsweredOfChildren(node, i, hops, exclude) ==
  IF i \notin Nibbles THEN <<>>
  ELSE (IF GetBranch(node, i) = NoRef THEN <<>>
        ELSE Answered(GetBranch(node, i)[2], GetBranch(node, i)[1] = "keccak",
                      hops, exclude))
       \o AnsweredOfChildren(node, i + 1, hops, exclude)
\* The nodes descend records among visits.
Recorded(visits, exclude) ==
  LET kept == SelectSeq(visits,
                        LAMBDA v : v.hops = 0 /\ hash(v.node) \notin exclude)
  IN  [i \in 1..Len(kept) |-> kept[i].node]
NoArrayMarked == \A m \in sync.exclude : ~IsArray(m)
\* Everything in one sequence is in the other as often at least.
SubBag(s1, s2) == \A x \in Range(s1) : Count(s1, x) <= Count(s2, x)

\* C30 as stated: descend does not raise when its walk comes to a node that
\* the backing store lacks: it returns descriptors of nodes that the walk
\* has found by then, all of them when the store lacks none, and none when
\* there are none; any other error of the walk is raised to the caller: the
\* error of a failing store, and the error that isEqual raises in onFound
\* for an array among the marked nodes.
C30_MissingNodeEndsWalk ==
  (Descended /\ kv # {}) =>
    /\ sync.result.err \in {"", DbFault, OnlyBuffers}
    /\ sync.result.err # "" => sync.result.nodes = <<>>
    /\ sync.fault => sync.result.err = DbFault
    /\ (~sync.fault /\ ~NoArrayMarked /\ Build(kv) \in db) =>
         sync.result.err = OnlyBuffers
    /\ (~sync.fault /\ NoArrayMarked) =>
         /\ sync.result.err = ""
         /\ SubBag(NodesOfDescriptors(sync.result.nodes),
                   Recorded(Answered(Build(kv), TRUE, sync.level,
                                     sync.exclude),
                            sync.exclude))
         /\ Answered(Build(kv), TRUE, sync.level, sync.exclude)
              = Visits(Build(kv), TRUE, sync.level, sync.exclude)
            => SameBag(NodesOfDescriptors(sync.result.nodes),
                       Recorded(Visits(Build(kv), TRUE, sync.level,
                                       sync.exclude),
                                sync.exclude))

\* The places of the trie hops below a node: the node found at each, with
\* the hashes of the branches and extensions passed on the way down to it.
RECURSIVE Ancestries(_, _, _)
RECURSIVE AncestriesOfChildren(_, _, _, _)
Ancestries(node, hops, above) ==
  IF hops = 0 THEN {[node |-> node, above |-> above]}
  ELSE IF node.type = "extension"
  THEN Ancestries(node.child[2], hops - 1, above \cup {hash(node)})
  ELSE IF node.type = "branch"
  THEN AncestriesOfChildren(node, 0, hops - 1, above \cup {hash(node)})
  ELSE {}
AncestriesOfChildren(node, i, hops, above) ==
  IF i \notin Nibbles THEN {}
  ELSE (IF GetBranch(node, i) = NoRef THEN {}
        ELSE Ancestries(GetBranch(node, i)[2], hops, above))
       \cup AncestriesOfChildren(node, i + 1, hops, above)

\* C31: descend does not go below a branch or an extension whose hash is in
\* exclude: every node it returns sits, level hops below the root, at a
\* place that is reached without passing a node whose hash is in exclude,
\* so that a node reached only through marked nodes is never returned.
C31_MarkedSubtreePruned ==
  (Descended /\ ~sync.fault /\ sync.head.kv # {}) =>
    \A d \in Range(sync.result.nodes) :
      \E a \in Ancestries(Build(sync.head.kv), sync.level, {}) :
        /\ a.node = d.node
        /\ a.above \cap sync.exclude = {}

\* descend below a root that is an extension whose hash is marked: the
\* nodes below it, none of them marked, are not returned.
C31_Witness ==
  /\ Descended
  /\ ~sync.fault
  /\ Written(sync.head)
  /\ sync.head.kv # {}
  /\ sync.level >= 1
  /\ Build(sync.head.kv).type = "extension"
  /\ sync.exclude = {hash(Build(sync.head.kv))}
  /\ NodesBelow(Build(sync.head.kv), sync.level) # <<>>
  /\ \A node \in Range(NodesBelow(Build(sync.head.kv), sync.level)) :
       hash(node) \notin sync.exclude
  /\ sync.result.nodes = <<>>

\* ------------------------------------------ add calls that run to their end
\* Every await of a call in progress settles: db.put returns, trie.put
\* resolves or rejects, metadb.remove returns.  Nothing makes a caller call
\* add again.
Settles ==
  \A p \in Procs :
    /\ WF_vars(PassesPut(p))
    /\ WF_vars(PassesReturn(p))
    /\ WF_vars(TriePutRoot(p) \/ TriePutRejected(p))
    /\ WF_vars(TriePutWritten(p) \/ TriePutRejected(p))
    /\ WF_vars((\E deleted \in BOOLEAN : TriePutFail(p, deleted))
                 \/ \E pub \in PromiseOutcomes : TriePutOk(p, pub))
    /\ WF_vars(MetaRemove(p))
SpecLive == Init /\ [][Next]_vars /\ Settles

\* The call has read the key as present and is about to throw the duplicate
\* error.
DuplicateOf(p, k) ==
  call[p].pc \in {"dbput", "putwait"} /\ ~call[p].notFound /\ KeyOf(p) = k
\* The trie holds a message of the key.
Stored(k) == \E e \in trie : DedupKey(MessageOf(e)) = k

\* C32: under any interleaving of add calls, a call that is rejected as a
\* duplicate has a message of its DedupKey in the trie then or at some
\* later time: the call that set the key does not fail its trie.put and roll
\* the key back with no message of the key admitted.  A key that a failed
\* removal has left in the ledger is set aside.
C32_DuplicateHasWinner ==
  \A p \in Procs : \A k \in Keys :
    [](DuplicateOf(p, k) => <>(Stored(k) \/ k \in stuck))

\* C33: under any interleaving of add calls, the removal an add makes after
\* its trie.put has failed does not delete the key of a message that the
\* trie holds: whenever no add call is in progress, the DedupKey of every
\* leaf of the trie is in the ledger.
C33_LeavesKeepTheirKey ==
  Quiet => \A e \in trie : DedupKey(MessageOf(e)) \in metadb

\* C34: a story that count builds from admitted messages counts each
\* identity once at most: its upvotes are as many as its upvoters, and no
\* more than the distinct identities among the messages of its normalized
\* href.
C34_EachIdentityOnce ==
  sync.op = "count" =>
    \A story \in Range(sync.result) :
      /\ story.upvotes = Len(story.upvoters)
      /\ story.upvotes
           <= Cardinality({sync.leaves[i].identity :
                             i \in OfStory(sync.leaves, story)})

====
